---- MODULE Spec2Model ----
(***************************************************************************)
(* Model of the take-home pay tax engine (core/src): the decimal           *)
(* arithmetic the calculators run on, the embedded 2024 data set, the      *)
(* federal, state and FICA calculators and the calculation engine.         *)
(*                                                                         *)
(* Every computation of the crate is a pure function of its input, so the  *)
(* state machine is a single call: Init draws the operation and its        *)
(* arguments, one action per entry point computes the result.              *)
(***************************************************************************)
EXTENDS Integers, Sequences, FiniteSets, TLC

(***************************************************************************)
(* rust_decimal::Decimal.  A Decimal is a sign and a magnitude; the model  *)
(* keeps the magnitude as an arbitrary-size natural number (little-endian  *)
(* limbs in base LimbBase, no leading zero limb, zero = << >>) counted in  *)
(* units of 10^-ScaleDigits.  Sums, differences and the products of the    *)
(* crate (money with at most two decimals times a rate with at most five)  *)
(* are exact; a quotient is rounded half-even on the magnitude at          *)
(* ScaleDigits fractional digits.                                          *)
(***************************************************************************)
FracLimbs == 2

LimbBase == 10000

ScaleDigits == 4 * FracLimbs

Limb(a, i) == IF i <= Len(a) THEN a[i] ELSE 0

RECURSIVE Trim(_)
Trim(a) ==
    IF a = << >> THEN a
    ELSE IF a[Len(a)] = 0 THEN Trim(SubSeq(a, 1, Len(a) - 1))
    ELSE a

RECURSIVE NatFromInt(_)
NatFromInt(n) ==
    IF n = 0 THEN << >> ELSE <<n % LimbBase>> \o NatFromInt(n \div LimbBase)

RECURSIVE AddCarry(_, _, _, _)
AddCarry(a, b, i, c) ==
    IF i > Len(a) /\ i > Len(b)
    THEN (IF c = 0 THEN << >> ELSE <<c>>)
    ELSE LET s == Limb(a, i) + Limb(b, i) + c
         IN  <<s % LimbBase>> \o AddCarry(a, b, i + 1, s \div LimbBase)

NatAdd(a, b) == AddCarry(a, b, 1, 0)

RECURSIVE SubBorrow(_, _, _, _)
SubBorrow(a, b, i, c) ==
    IF i > Len(a) THEN << >>
    ELSE LET s == Limb(a, i) - Limb(b, i) - c
         IN  IF s < 0
             THEN <<s + LimbBase>> \o SubBorrow(a, b, i + 1, 1)
             ELSE <<s>> \o SubBorrow(a, b, i + 1, 0)

\* a - b for a >= b
NatSub(a, b) == Trim(SubBorrow(a, b, 1, 0))

RECURSIVE CmpFrom(_, _, _)
CmpFrom(a, b, i) ==
    IF i = 0 THEN 0
    ELSE IF a[i] < b[i] THEN -1
    ELSE IF a[i] > b[i] THEN 1
    ELSE CmpFrom(a, b, i - 1)

\* -1, 0, 1 as a < b, a = b, a > b
NatCmp(a, b) ==
    IF Len(a) < Len(b) THEN -1
    ELSE IF Len(a) > Len(b) THEN 1
    ELSE CmpFrom(a, b, Len(a))

RECURSIVE MulCarry(_, _, _, _)
MulCarry(a, m, i, c) ==
    IF i > Len(a) THEN NatFromInt(c)
    ELSE LET s == a[i] * m + c
         IN  <<s % LimbBase>> \o MulCarry(a, m, i + 1, s \div LimbBase)

\* a * m for a small factor 0 <= m <= LimbBase
NatMulSmall(a, m) == IF m = 0 THEN << >> ELSE MulCarry(a, m, 1, 0)

RECURSIVE Zeros(_)
Zeros(k) == IF k = 0 THEN << >> ELSE <<0>> \o Zeros(k - 1)

\* a * LimbBase^k
ShiftLimbs(a, k) == IF a = << >> THEN a ELSE Zeros(k) \o a

RECURSIVE MulFrom(_, _, _)
MulFrom(a, b, i) ==
    IF i > Len(b) THEN << >>
    ELSE NatAdd(ShiftLimbs(NatMulSmall(a, b[i]), i - 1), MulFrom(a, b, i + 1))

NatMul(a, b) == MulFrom(a, b, 1)

\* the greatest q in lo..hi with b * q <= r (b * lo <= r is given)
RECURSIVE QuotLimb(_, _, _, _)
QuotLimb(r, b, lo, hi) ==
    IF lo >= hi THEN lo
    ELSE LET mid == (lo + hi + 1) \div 2
         IN  IF NatCmp(NatMulSmall(b, mid), r) <= 0
             THEN QuotLimb(r, b, mid, hi)
             ELSE QuotLimb(r, b, lo, mid - 1)

\* floor(r / b) for r < b * LimbBase: the two leading limbs of r over the
\* leading limb of b bracket the quotient, the search settles it
QuotEstimate(r, b) ==
    LET n  == Len(b)
        rt == Limb(r, n + 1) * LimbBase + Limb(r, n)
        bt == b[n]
        hi == IF rt \div bt < LimbBase THEN rt \div bt ELSE LimbBase - 1
    IN  IF n = 1 THEN rt \div bt
        ELSE QuotLimb(r, b, rt \div (bt + 1), hi)

\* long division, most significant limb first: <<quotient, remainder>>
RECURSIVE DivFrom(_, _, _, _, _)
DivFrom(a, b, i, q, r) ==
    IF i = 0 THEN <<Trim(q), r>>
    ELSE LET step(r1, d) ==
                 DivFrom(a, b, i - 1, <<d>> \o q, NatSub(r1, NatMulSmall(b, d)))
         IN  step(Trim(<<a[i]>> \o r), QuotEstimate(Trim(<<a[i]>> \o r), b))

NatDivMod(a, b) == DivFrom(a, b, Len(a), << >>, << >>)

\* a / b rounded to the nearest natural, ties to the even one.  Both are
\* first multiplied by f so that the leading limb of the divisor is at
\* least LimbBase / 2, which leaves the quotient and the rounding unchanged
\* and makes the estimate of each quotient limb tight.
NatDivRound(a, b) ==
    LET f == LimbBase \div (b[Len(b)] + 1)
        round(q, c) ==
            IF c > 0 \/ (c = 0 /\ Limb(q, 1) % 2 = 1) THEN NatAdd(q, <<1>>) ELSE q
        half(qr, bn) == round(qr[1], NatCmp(NatMulSmall(qr[2], 2), bn))
    IN  half(NatDivMod(NatMulSmall(a, f), NatMulSmall(b, f)), NatMulSmall(b, f))

RECURSIVE Pow10(_)
Pow10(k) == IF k = 0 THEN 1 ELSE 10 * Pow10(k - 1)

\* 10^ScaleDigits, the magnitude of 1
One == ShiftLimbs(<<1>>, FracLimbs)

MkDecimal(neg, mag) == [neg |-> neg /\ mag # << >>, mag |-> mag]

\* dec!(m * 10^-s) and Decimal::new(m, s), for 0 <= s <= ScaleDigits
dec(m, s) ==
    LET k   == ScaleDigits - s
        abs == IF m < 0 THEN -m ELSE m
    IN  MkDecimal(m < 0,
                  ShiftLimbs(NatMulSmall(NatFromInt(abs), Pow10(k % 4)), k \div 4))

\* Decimal::from(n)
FromInt(n) == dec(n, 0)

ZERO == MkDecimal(FALSE, << >>)

\* Decimal::MAX = 79228162514264337593543950335
MAX == MkDecimal(FALSE,
                 ShiftLimbs(<<335, 4395, 5935, 4337, 1426, 1625, 9228, 7>>, FracLimbs))

Neg(a) == MkDecimal(~a.neg, a.mag)

Abs(a) == MkDecimal(FALSE, a.mag)

Add(a, b) ==
    IF a.neg = b.neg THEN MkDecimal(a.neg, NatAdd(a.mag, b.mag))
    ELSE IF NatCmp(a.mag, b.mag) >= 0 THEN MkDecimal(a.neg, NatSub(a.mag, b.mag))
    ELSE MkDecimal(b.neg, NatSub(b.mag, a.mag))

Sub(a, b) == Add(a, Neg(b))

\* -1, 0, 1 as a < b, a = b, a > b
Cmp(a, b) ==
    IF a.neg /\ ~b.neg THEN -1
    ELSE IF ~a.neg /\ b.neg THEN 1
    ELSE IF a.neg THEN NatCmp(b.mag, a.mag)
    ELSE NatCmp(a.mag, b.mag)

Lt(a, b) == Cmp(a, b) < 0

Le(a, b) == Cmp(a, b) <= 0

Gt(a, b) == Cmp(a, b) > 0

Ge(a, b) == Cmp(a, b) >= 0

Min(a, b) == IF Le(a, b) THEN a ELSE b

Max(a, b) == IF Ge(a, b) THEN a ELSE b

Mul(a, b) ==
    MkDecimal(a.neg # b.neg, NatDivRound(NatMul(a.mag, b.mag), One))

\* a / b for b # 0
Div(a, b) ==
    MkDecimal(a.neg # b.neg, NatDivRound(ShiftLimbs(a.mag, FracLimbs), b.mag))

(***************************************************************************)
(* Option<T>: None is the empty sequence, Some(x) the one-element one.     *)
(***************************************************************************)
None == << >>

Some(x) == <<x>>

is_some(o) == o # None

unwrap_or(o, d) == IF o = None THEN d ELSE o[1]

(***************************************************************************)
(* models/tax.rs, models/state.rs: the closed sets.                        *)
(***************************************************************************)
FilingStatus ==
    {"Single", "MarriedFilingJointly", "MarriedFilingSeparately",
     "HeadOfHousehold", "QualifyingWidower"}

as_str(filing_status) ==
    CASE filing_status = "Single" -> "single"
      [] filing_status = "MarriedFilingJointly" -> "married_filing_jointly"
      [] filing_status = "MarriedFilingSeparately" -> "married_filing_separately"
      [] filing_status = "HeadOfHousehold" -> "head_of_household"
      [] filing_status = "QualifyingWidower" -> "qualifying_widower"

USState ==
    {"Alabama", "Alaska", "Arizona", "Arkansas", "California", "Colorado",
     "Connecticut", "Delaware", "Florida", "Georgia", "Hawaii", "Idaho",
     "Illinois", "Indiana", "Iowa", "Kansas", "Kentucky", "Louisiana",
     "Maine", "Maryland", "Massachusetts", "Michigan", "Minnesota",
     "Mississippi", "Missouri", "Montana", "Nebraska", "Nevada",
     "NewHampshire", "NewJersey", "NewMexico", "NewYork", "NorthCarolina",
     "NorthDakota", "Ohio", "Oklahoma", "Oregon", "Pennsylvania",
     "RhodeIsland", "SouthCarolina", "SouthDakota", "Tennessee", "Texas",
     "Utah", "Vermont", "Virginia", "Washington", "WashingtonDC",
     "WestVirginia", "Wisconsin", "Wyoming"}

has_no_income_tax(state) ==
    state \in {"Alaska", "Florida", "Nevada", "NewHampshire", "SouthDakota",
               "Tennessee", "Texas", "Washington", "Wyoming"}

\* has_flat_tax without Utah
has_flat_tax_without_utah(state) ==
    state \in {"Colorado", "Illinois", "Indiana", "Kentucky", "Massachusetts",
               "Michigan", "NorthCarolina", "Pennsylvania"}

has_flat_tax(state) ==
    state \in {"Colorado", "Illinois", "Indiana", "Kentucky", "Massachusetts",
               "Michigan", "NorthCarolina", "Pennsylvania", "Utah"}

has_sdi(state) ==
    state \in {"California", "Hawaii", "NewJersey", "NewYork", "RhodeIsland"}

has_local_tax(state) ==
    state \in {"Alabama", "Colorado", "Delaware", "Indiana", "Iowa",
               "Kentucky", "Maryland", "Michigan", "Missouri", "NewJersey",
               "NewYork", "Ohio", "Oregon", "Pennsylvania", "WestVirginia"}

TaxBracket_new(floor, ceiling, rate, base_tax) ==
    [floor |-> floor, ceiling |-> ceiling, rate |-> rate, base_tax |-> base_tax]

\* TaxBracket::contains
contains(bracket, income) ==
    /\ Ge(income, bracket.floor)
    /\ (bracket.ceiling = None \/ Lt(income, bracket.ceiling[1]))

(***************************************************************************)
(* data/embedded.rs: the 2024 tables.                                      *)
(***************************************************************************)
federal_single ==
    << TaxBracket_new(dec(0, 0), Some(dec(11600, 0)), dec(10, 2), dec(0, 0)),
       TaxBracket_new(dec(11600, 0), Some(dec(47150, 0)), dec(12, 2), dec(1160, 0)),
       TaxBracket_new(dec(47150, 0), Some(dec(100525, 0)), dec(22, 2), dec(5426, 0)),
       TaxBracket_new(dec(100525, 0), Some(dec(191950, 0)), dec(24, 2), dec(1716850, 2)),
       TaxBracket_new(dec(191950, 0), Some(dec(243725, 0)), dec(32, 2), dec(3911050, 2)),
       TaxBracket_new(dec(243725, 0), Some(dec(609350, 0)), dec(35, 2), dec(5567850, 2)),
       TaxBracket_new(dec(609350, 0), None, dec(37, 2), dec(18364725, 2)) >>

federal_married_filing_jointly ==
    << TaxBracket_new(dec(0, 0), Some(dec(23200, 0)), dec(10, 2), dec(0, 0)),
       TaxBracket_new(dec(23200, 0), Some(dec(94300, 0)), dec(12, 2), dec(2320, 0)),
       TaxBracket_new(dec(94300, 0), Some(dec(201050, 0)), dec(22, 2), dec(10852, 0)),
       TaxBracket_new(dec(201050, 0), Some(dec(383900, 0)), dec(24, 2), dec(34337, 0)),
       TaxBracket_new(dec(383900, 0), Some(dec(487450, 0)), dec(32, 2), dec(78221, 0)),
       TaxBracket_new(dec(487450, 0), Some(dec(731200, 0)), dec(35, 2), dec(111357, 0)),
       TaxBracket_new(dec(731200, 0), None, dec(37, 2), dec(19666950, 2)) >>

federal_married_filing_separately ==
    << TaxBracket_new(dec(0, 0), Some(dec(11600, 0)), dec(10, 2), dec(0, 0)),
       TaxBracket_new(dec(11600, 0), Some(dec(47150, 0)), dec(12, 2), dec(1160, 0)),
       TaxBracket_new(dec(47150, 0), Some(dec(100525, 0)), dec(22, 2), dec(5426, 0)),
       TaxBracket_new(dec(100525, 0), Some(dec(191950, 0)), dec(24, 2), dec(1716850, 2)),
       TaxBracket_new(dec(191950, 0), Some(dec(243725, 0)), dec(32, 2), dec(3911050, 2)),
       TaxBracket_new(dec(243725, 0), Some(dec(365600, 0)), dec(35, 2), dec(5567850, 2)),
       TaxBracket_new(dec(365600, 0), None, dec(37, 2), dec(9833475, 2)) >>

federal_head_of_household ==
    << TaxBracket_new(dec(0, 0), Some(dec(16550, 0)), dec(10, 2), dec(0, 0)),
       TaxBracket_new(dec(16550, 0), Some(dec(63100, 0)), dec(12, 2), dec(1655, 0)),
       TaxBracket_new(dec(63100, 0), Some(dec(100500, 0)), dec(22, 2), dec(7241, 0)),
       TaxBracket_new(dec(100500, 0), Some(dec(191950, 0)), dec(24, 2), dec(15469, 0)),
       TaxBracket_new(dec(191950, 0), Some(dec(243700, 0)), dec(32, 2), dec(37417, 0)),
       TaxBracket_new(dec(243700, 0), Some(dec(609350, 0)), dec(35, 2), dec(53977, 0)),
       TaxBracket_new(dec(609350, 0), None, dec(37, 2), dec(18195450, 2)) >>

build_federal_brackets_2024 ==
    [fs \in FilingStatus |->
        CASE fs = "Single" -> federal_single
          [] fs = "MarriedFilingJointly" -> federal_married_filing_jointly
          [] fs = "MarriedFilingSeparately" -> federal_married_filing_separately
          [] fs = "HeadOfHousehold" -> federal_head_of_household
          [] fs = "QualifyingWidower" -> federal_married_filing_jointly]

build_standard_deductions_2024 ==
    [fs \in FilingStatus |->
        CASE fs = "Single" -> dec(14600, 0)
          [] fs = "MarriedFilingJointly" -> dec(29200, 0)
          [] fs = "MarriedFilingSeparately" -> dec(14600, 0)
          [] fs = "HeadOfHousehold" -> dec(21900, 0)
          [] fs = "QualifyingWidower" -> dec(29200, 0)]

build_fica_config_2024 ==
    [social_security_rate |-> dec(62, 3),
     wage_base |-> dec(168600, 0),
     medicare_rate |-> dec(145, 4),
     additional_medicare_rate |-> dec(9, 3)]

StateTaxType == {"NoTax", "FlatRate", "Progressive"}

\* a HashMap with no entry
EmptyMap == [k \in {} |-> None]

\* StateConfig::default()
StateConfig_default ==
    [state_code |-> "", tax_type |-> "NoTax", flat_rate |-> None,
     brackets |-> EmptyMap, standard_deduction |-> None, sdi_rate |-> None,
     sdi_wage_base |-> None, local_tax_info |-> None]

code(state) ==
    CASE state = "Alabama" -> "AL" [] state = "Alaska" -> "AK"
      [] state = "Arizona" -> "AZ" [] state = "Arkansas" -> "AR"
      [] state = "California" -> "CA" [] state = "Colorado" -> "CO"
      [] state = "Connecticut" -> "CT" [] state = "Delaware" -> "DE"
      [] state = "Florida" -> "FL" [] state = "Georgia" -> "GA"
      [] state = "Hawaii" -> "HI" [] state = "Idaho" -> "ID"
      [] state = "Illinois" -> "IL" [] state = "Indiana" -> "IN"
      [] state = "Iowa" -> "IA" [] state = "Kansas" -> "KS"
      [] state = "Kentucky" -> "KY" [] state = "Louisiana" -> "LA"
      [] state = "Maine" -> "ME" [] state = "Maryland" -> "MD"
      [] state = "Massachusetts" -> "MA" [] state = "Michigan" -> "MI"
      [] state = "Minnesota" -> "MN" [] state = "Mississippi" -> "MS"
      [] state = "Missouri" -> "MO" [] state = "Montana" -> "MT"
      [] state = "Nebraska" -> "NE" [] state = "Nevada" -> "NV"
      [] state = "NewHampshire" -> "NH" [] state = "NewJersey" -> "NJ"
      [] state = "NewMexico" -> "NM" [] state = "NewYork" -> "NY"
      [] state = "NorthCarolina" -> "NC" [] state = "NorthDakota" -> "ND"
      [] state = "Ohio" -> "OH" [] state = "Oklahoma" -> "OK"
      [] state = "Oregon" -> "OR" [] state = "Pennsylvania" -> "PA"
      [] state = "RhodeIsland" -> "RI" [] state = "SouthCarolina" -> "SC"
      [] state = "SouthDakota" -> "SD" [] state = "Tennessee" -> "TN"
      [] state = "Texas" -> "TX" [] state = "Utah" -> "UT"
      [] state = "Vermont" -> "VT" [] state = "Virginia" -> "VA"
      [] state = "Washington" -> "WA" [] state = "WashingtonDC" -> "DC"
      [] state = "WestVirginia" -> "WV" [] state = "Wisconsin" -> "WI"
      [] state = "Wyoming" -> "WY"

flat_tax_config(state_code, rate) ==
    [StateConfig_default EXCEPT
        !.state_code = state_code, !.tax_type = "FlatRate", !.flat_rate = Some(rate)]

california_single ==
    << TaxBracket_new(dec(0, 0), Some(dec(10412, 0)), dec(1, 2), dec(0, 0)),
       TaxBracket_new(dec(10412, 0), Some(dec(24684, 0)), dec(2, 2), dec(10412, 2)),
       TaxBracket_new(dec(24684, 0), Some(dec(38959, 0)), dec(4, 2), dec(38956, 2)),
       TaxBracket_new(dec(38959, 0), Some(dec(54081, 0)), dec(6, 2), dec(96056, 2)),
       TaxBracket_new(dec(54081, 0), Some(dec(68350, 0)), dec(8, 2), dec(186788, 2)),
       TaxBracket_new(dec(68350, 0), Some(dec(349137, 0)), dec(93, 3), dec(300940, 2)),
       TaxBracket_new(dec(349137, 0), Some(dec(418961, 0)), dec(103, 3), dec(2912259, 2)),
       TaxBracket_new(dec(418961, 0), Some(dec(698271, 0)), dec(113, 3), dec(3631446, 2)),
       TaxBracket_new(dec(698271, 0), Some(dec(1000000, 0)), dec(123, 3), dec(6787649, 2)),
       TaxBracket_new(dec(1000000, 0), None, dec(133, 3), dec(10498912, 2)) >>

california_married_filing_jointly ==
    << TaxBracket_new(dec(0, 0), Some(dec(20824, 0)), dec(1, 2), dec(0, 0)),
       TaxBracket_new(dec(20824, 0), Some(dec(49368, 0)), dec(2, 2), dec(20824, 2)),
       TaxBracket_new(dec(49368, 0), Some(dec(77918, 0)), dec(4, 2), dec(77912, 2)),
       TaxBracket_new(dec(77918, 0), Some(dec(108162, 0)), dec(6, 2), dec(192112, 2)),
       TaxBracket_new(dec(108162, 0), Some(dec(136700, 0)), dec(8, 2), dec(373576, 2)),
       TaxBracket_new(dec(136700, 0), Some(dec(698274, 0)), dec(93, 3), dec(601880, 2)),
       TaxBracket_new(dec(698274, 0), Some(dec(837922, 0)), dec(103, 3), dec(5824518, 2)),
       TaxBracket_new(dec(837922, 0), Some(dec(1396542, 0)), dec(113, 3), dec(7262892, 2)),
       TaxBracket_new(dec(1396542, 0), Some(dec(2000000, 0)), dec(123, 3), dec(13575298, 2)),
       TaxBracket_new(dec(2000000, 0), None, dec(133, 3), dec(20997824, 2)) >>

california_config ==
    [StateConfig_default EXCEPT
        !.state_code = "CA", !.tax_type = "Progressive",
        !.brackets = [k \in {"single", "married_filing_jointly"} |->
                         IF k = "single" THEN california_single
                         ELSE california_married_filing_jointly],
        !.standard_deduction =
            Some([k \in {"single", "married_filing_jointly"} |->
                     IF k = "single" THEN dec(5363, 0) ELSE dec(10726, 0)]),
        !.sdi_rate = Some(dec(11, 3)),
        !.sdi_wage_base = Some(dec(153164, 0))]

new_york_single ==
    << TaxBracket_new(dec(0, 0), Some(dec(8500, 0)), dec(4, 2), dec(0, 0)),
       TaxBracket_new(dec(8500, 0), Some(dec(11700, 0)), dec(45, 3), dec(340, 0)),
       TaxBracket_new(dec(11700, 0), Some(dec(13900, 0)), dec(525, 4), dec(484, 0)),
       TaxBracket_new(dec(13900, 0), Some(dec(80650, 0)), dec(55, 3), dec(59950, 2)),
       TaxBracket_new(dec(80650, 0), Some(dec(215400, 0)), dec(6, 2), dec(427075, 2)),
       TaxBracket_new(dec(215400, 0), Some(dec(1077550, 0)), dec(685, 4), dec(1235575, 2)),
       TaxBracket_new(dec(1077550, 0), Some(dec(5000000, 0)), dec(965, 4), dec(7141303, 2)),
       TaxBracket_new(dec(5000000, 0), Some(dec(25000000, 0)), dec(103, 3), dec(44992928, 2)),
       TaxBracket_new(dec(25000000, 0), None, dec(109, 3), dec(250992928, 2)) >>

new_york_config ==
    [StateConfig_default EXCEPT
        !.state_code = "NY", !.tax_type = "Progressive",
        !.brackets = [k \in {"single"} |-> new_york_single],
        !.standard_deduction =
            Some([k \in {"single", "married_filing_jointly"} |->
                     IF k = "single" THEN dec(8000, 0) ELSE dec(16050, 0)]),
        !.local_tax_info =
            Some([has_local_tax |-> TRUE, average_rate |-> Some(dec(35, 3))])]

arizona_single ==
    << TaxBracket_new(dec(0, 0), Some(dec(28653, 0)), dec(255, 4), dec(0, 0)),
       TaxBracket_new(dec(28653, 0), None, dec(298, 4), dec(73065, 2)) >>

arizona_config ==
    [StateConfig_default EXCEPT
        !.state_code = "AZ", !.tax_type = "Progressive",
        !.brackets = [k \in {"single"} |-> arizona_single]]

georgia_single ==
    << TaxBracket_new(dec(0, 0), Some(dec(750, 0)), dec(1, 2), dec(0, 0)),
       TaxBracket_new(dec(750, 0), Some(dec(2250, 0)), dec(2, 2), dec(750, 2)),
       TaxBracket_new(dec(2250, 0), Some(dec(3750, 0)), dec(3, 2), dec(3750, 2)),
       TaxBracket_new(dec(3750, 0), Some(dec(5250, 0)), dec(4, 2), dec(8250, 2)),
       TaxBracket_new(dec(5250, 0), Some(dec(7000, 0)), dec(5, 2), dec(14250, 2)),
       TaxBracket_new(dec(7000, 0), None, dec(549, 4), dec(230, 0)) >>

georgia_config ==
    [StateConfig_default EXCEPT
        !.state_code = "GA", !.tax_type = "Progressive",
        !.brackets = [k \in {"single"} |-> georgia_single],
        !.standard_deduction =
            Some([k \in {"single", "married_filing_jointly"} |->
                     IF k = "single" THEN dec(12000, 0) ELSE dec(24000, 0)])]

minnesota_single ==
    << TaxBracket_new(dec(0, 0), Some(dec(30070, 0)), dec(535, 4), dec(0, 0)),
       TaxBracket_new(dec(30070, 0), Some(dec(98760, 0)), dec(68, 3), dec(160875, 2)),
       TaxBracket_new(dec(98760, 0), Some(dec(183340, 0)), dec(785, 4), dec(627967, 2)),
       TaxBracket_new(dec(183340, 0), None, dec(985, 4), dec(1291920, 2)) >>

minnesota_config ==
    [StateConfig_default EXCEPT
        !.state_code = "MN", !.tax_type = "Progressive",
        !.brackets = [k \in {"single"} |-> minnesota_single],
        !.standard_deduction =
            Some([k \in {"single", "married_filing_jointly"} |->
                     IF k = "single" THEN dec(14575, 0) ELSE dec(29150, 0)])]

new_jersey_single ==
    << TaxBracket_new(dec(0, 0), Some(dec(20000, 0)), dec(14, 3), dec(0, 0)),
       TaxBracket_new(dec(20000, 0), Some(dec(35000, 0)), dec(175, 4), dec(280, 0)),
       TaxBracket_new(dec(35000, 0), Some(dec(40000, 0)), dec(35, 3), dec(54250, 2)),
       TaxBracket_new(dec(40000, 0), Some(dec(75000, 0)), dec(5525, 5), dec(71750, 2)),
       TaxBracket_new(dec(75000, 0), Some(dec(500000, 0)), dec(637, 4), dec(265125, 2)),
       TaxBracket_new(dec(500000, 0), Some(dec(1000000, 0)), dec(897, 4), dec(2972400, 2)),
       TaxBracket_new(dec(1000000, 0), None, dec(1075, 4), dec(7457400, 2)) >>

new_jersey_config ==
    [StateConfig_default EXCEPT
        !.state_code = "NJ", !.tax_type = "Progressive",
        !.brackets = [k \in {"single"} |-> new_jersey_single],
        !.sdi_rate = Some(dec(14, 4))]

oregon_single ==
    << TaxBracket_new(dec(0, 0), Some(dec(4050, 0)), dec(475, 4), dec(0, 0)),
       TaxBracket_new(dec(4050, 0), Some(dec(10200, 0)), dec(675, 4), dec(19238, 2)),
       TaxBracket_new(dec(10200, 0), Some(dec(125000, 0)), dec(875, 4), dec(60750, 2)),
       TaxBracket_new(dec(125000, 0), None, dec(99, 3), dec(1065250, 2)) >>

oregon_config ==
    [StateConfig_default EXCEPT
        !.state_code = "OR", !.tax_type = "Progressive",
        !.brackets = [k \in {"single"} |-> oregon_single],
        !.standard_deduction =
            Some([k \in {"single", "married_filing_jointly"} |->
                     IF k = "single" THEN dec(2605, 0) ELSE dec(5210, 0)])]

virginia_single ==
    << TaxBracket_new(dec(0, 0), Some(dec(3000, 0)), dec(2, 2), dec(0, 0)),
       TaxBracket_new(dec(3000, 0), Some(dec(5000, 0)), dec(3, 2), dec(60, 0)),
       TaxBracket_new(dec(5000, 0), Some(dec(17000, 0)), dec(5, 2), dec(120, 0)),
       TaxBracket_new(dec(17000, 0), None, dec(575, 4), dec(720, 0)) >>

virginia_config ==
    [StateConfig_default EXCEPT
        !.state_code = "VA", !.tax_type = "Progressive",
        !.brackets = [k \in {"single"} |-> virginia_single],
        !.standard_deduction =
            Some([k \in {"single", "married_filing_jointly"} |->
                     IF k = "single" THEN dec(8500, 0) ELSE dec(17000, 0)])]

default_brackets(state) ==
    [k \in {"single"} |->
        <<TaxBracket_new(dec(0, 0), None, dec(5, 2), dec(0, 0))>>]

build_state_configs_2024 ==
    [state \in USState |->
        CASE state \in {"Alaska", "Florida", "Nevada", "NewHampshire",
                        "SouthDakota", "Tennessee", "Texas", "Washington",
                        "Wyoming"} ->
                 [StateConfig_default EXCEPT
                     !.state_code = code(state), !.tax_type = "NoTax"]
          [] state = "Colorado" -> flat_tax_config("CO", dec(44, 3))
          [] state = "Illinois" -> flat_tax_config("IL", dec(495, 4))
          [] state = "Indiana" -> flat_tax_config("IN", dec(305, 4))
          [] state = "Kentucky" -> flat_tax_config("KY", dec(4, 2))
          [] state = "Massachusetts" -> flat_tax_config("MA", dec(5, 2))
          [] state = "Michigan" -> flat_tax_config("MI", dec(425, 4))
          [] state = "NorthCarolina" -> flat_tax_config("NC", dec(525, 4))
          [] state = "Pennsylvania" -> flat_tax_config("PA", dec(307, 4))
          [] state = "Utah" -> flat_tax_config("UT", dec(465, 4))
          [] state = "California" -> california_config
          [] state = "NewYork" -> new_york_config
          [] state = "Arizona" -> arizona_config
          [] state = "Georgia" -> georgia_config
          [] state = "Minnesota" -> minnesota_config
          [] state = "NewJersey" -> new_jersey_config
          [] state = "Oregon" -> oregon_config
          [] state = "Virginia" -> virginia_config
          [] OTHER ->
                 [StateConfig_default EXCEPT
                     !.state_code = code(state), !.tax_type = "Progressive",
                     !.brackets = default_brackets(state)]]

(***************************************************************************)
(* impl TaxDataProvider for EmbeddedTaxData                                *)
(***************************************************************************)
\* HashMap::get(key).cloned().unwrap_or(default)
get_or(map, key, default) == IF key \in DOMAIN map THEN map[key] ELSE default

\* a standard deduction known for 2024 only
standard_deduction_2024_only(filing_status, year) ==
    IF year = 2024
    THEN get_or(build_standard_deductions_2024, filing_status, dec(14600, 0))
    ELSE ZERO

federal_brackets(filing_status, year) ==
    get_or(build_federal_brackets_2024, filing_status, << >>)

standard_deduction(filing_status, year) ==
    get_or(build_standard_deductions_2024, filing_status, dec(14600, 0))

fica_config(year) == build_fica_config_2024

state_config(state, year) ==
    get_or(build_state_configs_2024, state,
           [StateConfig_default EXCEPT
               !.state_code = code(state), !.tax_type = "NoTax"])

(***************************************************************************)
(* calculators/federal.rs                                                  *)
(***************************************************************************)
\* a BracketAmount whose tax_paid forgets the rate
BracketAmount_without_rate(bracket, income_in_bracket) ==
    [floor |-> bracket.floor, ceiling |-> bracket.ceiling, rate |-> bracket.rate,
     taxable_in_bracket |-> income_in_bracket,
     tax_paid |-> income_in_bracket]

BracketAmount(bracket, income_in_bracket) ==
    [floor |-> bracket.floor, ceiling |-> bracket.ceiling, rate |-> bracket.rate,
     taxable_in_bracket |-> income_in_bracket,
     tax_paid |-> Mul(income_in_bracket, bracket.rate)]

\* the for loop of FederalTaxCalculator::calculate from bracket i on:
\* the marginal rate and the breakdown it leaves
RECURSIVE federal_loop(_, _, _, _, _)
federal_loop(taxable_income, brackets, i, marginal_rate, breakdown) ==
    IF i > Len(brackets)
    THEN [marginal_rate |-> marginal_rate, breakdown |-> breakdown]
    ELSE LET bracket == brackets[i]
             ceiling == unwrap_or(bracket.ceiling, MAX)
             income_in_bracket == Sub(Min(taxable_income, ceiling), bracket.floor)
         IN  IF Gt(taxable_income, bracket.floor)
             THEN federal_loop(taxable_income, brackets, i + 1, bracket.rate,
                      IF Gt(income_in_bracket, ZERO)
                      THEN Append(breakdown, BracketAmount(bracket, income_in_bracket))
                      ELSE breakdown)
             ELSE federal_loop(taxable_income, brackets, i + 1, marginal_rate, breakdown)

\* brackets.iter().rev().find(|b| taxable_income >= b.floor): its index, 0 if none
RECURSIVE rfind_bracket(_, _, _)
rfind_bracket(taxable_income, brackets, i) ==
    IF i = 0 THEN 0
    ELSE IF Ge(taxable_income, brackets[i].floor) THEN i
    ELSE rfind_bracket(taxable_income, brackets, i - 1)

\* calculate_with_base_tax searching from the first bracket (no .rev())
calculate_with_base_tax_first(taxable_income, brackets) ==
    LET bracket == brackets[1]
    IN  Add(bracket.base_tax,
            Mul(Sub(taxable_income, bracket.floor), bracket.rate))

\* calculate_with_base_tax without the base tax of the bracket
calculate_with_base_tax_no_base(taxable_income, brackets) ==
    LET i == rfind_bracket(taxable_income, brackets, Len(brackets))
        bracket == IF i = 0 THEN brackets[1] ELSE brackets[i]
    IN  Mul(Sub(taxable_income, bracket.floor), bracket.rate)

calculate_with_base_tax(taxable_income, brackets) ==
    LET i == rfind_bracket(taxable_income, brackets, Len(brackets))
        bracket == IF i = 0 THEN brackets[1] ELSE brackets[i]
    IN  Add(bracket.base_tax,
            Mul(Sub(taxable_income, bracket.floor), bracket.rate))

FederalTaxCalculator_calculate(taxable_income, filing_status, year) ==
    LET result(loop, tax) ==
            [taxable_income |-> taxable_income,
             tax |-> tax,
             marginal_rate |-> loop.marginal_rate,
             effective_rate |-> Div(tax, taxable_income),
             bracket_breakdown |-> loop.breakdown]
        with(brackets) ==
            IF Le(taxable_income, ZERO) \/ brackets = << >>
            THEN [taxable_income |-> ZERO,
                  tax |-> ZERO,
                  marginal_rate |->
                      IF brackets = << >> THEN dec(10, 2) ELSE brackets[1].rate,
                  effective_rate |-> ZERO,
                  bracket_breakdown |-> << >>]
            ELSE result(federal_loop(taxable_income, brackets, 1, dec(10, 2), << >>),
                        calculate_with_base_tax(taxable_income, brackets))
    IN  with(federal_brackets(filing_status, year))

(***************************************************************************)
(* calculators/fica.rs                                                     *)
(***************************************************************************)
\* the thresholds with those of the two married statuses exchanged
additional_medicare_threshold_swapped(filing_status) ==
    CASE filing_status \in {"Single", "HeadOfHousehold", "QualifyingWidower"} ->
             dec(200000, 0)
      [] filing_status = "MarriedFilingJointly" -> dec(125000, 0)
      [] filing_status = "MarriedFilingSeparately" -> dec(250000, 0)

additional_medicare_threshold(filing_status) ==
    CASE filing_status \in {"Single", "HeadOfHousehold", "QualifyingWidower"} ->
             dec(200000, 0)
      [] filing_status = "MarriedFilingJointly" -> dec(250000, 0)
      [] filing_status = "MarriedFilingSeparately" -> dec(125000, 0)

\* calculate_with_status taking the larger of gross income and wage base
calculate_with_status_max(gross_income, filing_status, year) ==
    LET config == fica_config(year)
        ss_taxable == Max(gross_income, config.wage_base)
        social_security == Mul(ss_taxable, config.social_security_rate)
        medicare == Mul(gross_income, config.medicare_rate)
        threshold == additional_medicare_threshold(filing_status)
        additional_medicare ==
            IF Gt(gross_income, threshold)
            THEN Mul(Sub(gross_income, threshold), config.additional_medicare_rate)
            ELSE ZERO
    IN  [social_security |-> social_security,
         social_security_wage_base |-> config.wage_base,
         medicare |-> medicare,
         additional_medicare |-> additional_medicare,
         total |-> Add(Add(social_security, medicare), additional_medicare)]

\* calculate_with_status capping the Medicare wages at the wage base too
calculate_with_status_medicare_capped(gross_income, filing_status, year) ==
    LET config == fica_config(year)
        ss_taxable == Min(gross_income, config.wage_base)
        social_security == Mul(ss_taxable, config.social_security_rate)
        medicare == Mul(ss_taxable, config.medicare_rate)
        threshold == additional_medicare_threshold(filing_status)
        additional_medicare ==
            IF Gt(gross_income, threshold)
            THEN Mul(Sub(gross_income, threshold), config.additional_medicare_rate)
            ELSE ZERO
    IN  [social_security |-> social_security,
         social_security_wage_base |-> config.wage_base,
         medicare |-> medicare,
         additional_medicare |-> additional_medicare,
         total |-> Add(Add(social_security, medicare), additional_medicare)]

calculate_with_status(gross_income, filing_status, year) ==
    LET config == fica_config(year)
        ss_taxable == Min(gross_income, config.wage_base)
        social_security == Mul(ss_taxable, config.social_security_rate)
        medicare == Mul(gross_income, config.medicare_rate)
        threshold == additional_medicare_threshold(filing_status)
        additional_medicare ==
            IF Gt(gross_income, threshold)
            THEN Mul(Sub(gross_income, threshold), config.additional_medicare_rate)
            ELSE ZERO
    IN  [social_security |-> social_security,
         social_security_wage_base |-> config.wage_base,
         medicare |-> medicare,
         additional_medicare |-> additional_medicare,
         total |-> Add(Add(social_security, medicare), additional_medicare)]

FicaCalculator_calculate(gross_income, year) ==
    calculate_with_status(gross_income, "Single", year)

(***************************************************************************)
(* calculators/state.rs                                                    *)
(***************************************************************************)
\* the for loop of calculate_progressive from bracket i on
RECURSIVE progressive_loop(_, _, _, _, _)
progressive_loop(taxable_income, brackets, i, total_tax, breakdown) ==
    IF i > Len(brackets)
    THEN <<total_tax, Some(breakdown)>>
    ELSE LET bracket == brackets[i]
             ceiling == unwrap_or(bracket.ceiling, MAX)
             income_in_bracket == Sub(Min(taxable_income, ceiling), bracket.floor)
             amount == BracketAmount(bracket, income_in_bracket)
         IN  IF Gt(taxable_income, bracket.floor) /\ Gt(income_in_bracket, ZERO)
             THEN progressive_loop(taxable_income, brackets, i + 1,
                                   Add(total_tax, amount.tax_paid),
                                   Append(breakdown, amount))
             ELSE progressive_loop(taxable_income, brackets, i + 1,
                                   total_tax, breakdown)

calculate_progressive(taxable_income, brackets) ==
    IF Le(taxable_income, ZERO) \/ brackets = << >>
    THEN <<ZERO, None>>
    ELSE progressive_loop(taxable_income, brackets, 1, ZERO, << >>)

\* calculate_sdi ignoring the wage base
calculate_sdi_uncapped(income, state, config) ==
    IF ~has_sdi(state) THEN ZERO
    ELSE Mul(income, unwrap_or(config.sdi_rate, ZERO))

calculate_sdi(income, state, config) ==
    IF ~has_sdi(state) THEN ZERO
    ELSE LET rate == unwrap_or(config.sdi_rate, ZERO)
             wage_base == unwrap_or(config.sdi_wage_base, income)
             taxable == Min(income, wage_base)
         IN  Mul(taxable, rate)

estimate_local_tax(income, state, config) ==
    IF ~has_local_tax(state) THEN ZERO
    ELSE IF config.local_tax_info = None THEN ZERO
    ELSE IF config.local_tax_info[1].average_rate = None THEN ZERO
    ELSE Mul(income, config.local_tax_info[1].average_rate[1])

\* the calculator without the early return for the no-income-tax states,
\* reading a missing bracket list as the default single-bracket one
StateTaxCalculator_calculate_default_table(taxable_income, state, filing_status, year) ==
    LET      key == as_str(filing_status)
             result(income, sdi, local_tax, total_tax) ==
                 [state_code |-> code(state),
                  taxable_income |-> taxable_income,
                  income_tax |-> income[1],
                  local_tax |-> local_tax,
                  sdi |-> sdi,
                  total_tax |-> total_tax,
                  effective_rate |->
                      IF Gt(taxable_income, ZERO) THEN Div(total_tax, taxable_income)
                      ELSE ZERO,
                  bracket_breakdown |-> income[2]]
             total(income, sdi, local_tax) ==
                 result(income, sdi, local_tax, Add(Add(income[1], sdi), local_tax))
             with(config) ==
                 LET brackets == get_or(config.brackets, key,
                                        default_brackets(state)["single"])
                     std_deduction ==
                         IF config.standard_deduction = None THEN ZERO
                         ELSE get_or(config.standard_deduction[1], key, ZERO)
                     adjusted_income == Max(Sub(taxable_income, std_deduction), ZERO)
                 IN  total(IF has_flat_tax(state)
                           THEN <<Mul(taxable_income, unwrap_or(config.flat_rate, ZERO)),
                                  None>>
                           ELSE calculate_progressive(adjusted_income, brackets),
                           calculate_sdi(taxable_income, state, config),
                           estimate_local_tax(taxable_income, state, config))
         IN  with(state_config(state, year))

\* the calculator falling back on the single brackets of the state when the
\* filing status has none
StateTaxCalculator_calculate_single_fallback(taxable_income, state, filing_status, year) ==
    IF has_no_income_tax(state)
    THEN [state_code |-> code(state),
          taxable_income |-> taxable_income,
          income_tax |-> ZERO,
          local_tax |-> ZERO,
          sdi |-> ZERO,
          total_tax |-> ZERO,
          effective_rate |-> ZERO,
          bracket_breakdown |-> None]
    ELSE LET key == as_str(filing_status)
             result(income, sdi, local_tax, total_tax) ==
                 [state_code |-> code(state),
                  taxable_income |-> taxable_income,
                  income_tax |-> income[1],
                  local_tax |-> local_tax,
                  sdi |-> sdi,
                  total_tax |-> total_tax,
                  effective_rate |->
                      IF Gt(taxable_income, ZERO) THEN Div(total_tax, taxable_income)
                      ELSE ZERO,
                  bracket_breakdown |-> income[2]]
             total(income, sdi, local_tax) ==
                 result(income, sdi, local_tax, Add(Add(income[1], sdi), local_tax))
             with(config) ==
                 LET brackets == get_or(config.brackets, key,
                                        get_or(config.brackets, "single", << >>))
                     std_deduction ==
                         IF config.standard_deduction = None THEN ZERO
                         ELSE get_or(config.standard_deduction[1], key, ZERO)
                     adjusted_income == Max(Sub(taxable_income, std_deduction), ZERO)
                 IN  total(IF has_flat_tax(state)
                           THEN <<Mul(taxable_income, unwrap_or(config.flat_rate, ZERO)),
                                  None>>
                           ELSE calculate_progressive(adjusted_income, brackets),
                           calculate_sdi(taxable_income, state, config),
                           estimate_local_tax(taxable_income, state, config))
         IN  with(state_config(state, year))

StateTaxCalculator_calculate(taxable_income, state, filing_status, year) ==
    IF has_no_income_tax(state)
    THEN [state_code |-> code(state),
          taxable_income |-> taxable_income,
          income_tax |-> ZERO,
          local_tax |-> ZERO,
          sdi |-> ZERO,
          total_tax |-> ZERO,
          effective_rate |-> ZERO,
          bracket_breakdown |-> None]
    ELSE LET key == as_str(filing_status)
             result(income, sdi, local_tax, total_tax) ==
                 [state_code |-> code(state),
                  taxable_income |-> taxable_income,
                  income_tax |-> income[1],
                  local_tax |-> local_tax,
                  sdi |-> sdi,
                  total_tax |-> total_tax,
                  effective_rate |->
                      IF Gt(taxable_income, ZERO) THEN Div(total_tax, taxable_income)
                      ELSE ZERO,
                  bracket_breakdown |-> income[2]]
             total(income, sdi, local_tax) ==
                 result(income, sdi, local_tax, Add(Add(income[1], sdi), local_tax))
             with(config) ==
                 LET brackets == get_or(config.brackets, key, << >>)
                     std_deduction ==
                         IF config.standard_deduction = None THEN ZERO
                         ELSE get_or(config.standard_deduction[1], key, ZERO)
                     adjusted_income == Max(Sub(taxable_income, std_deduction), ZERO)
                 IN  total(IF has_flat_tax(state)
                           THEN <<Mul(taxable_income, unwrap_or(config.flat_rate, ZERO)),
                                  None>>
                           ELSE calculate_progressive(adjusted_income, brackets),
                           calculate_sdi(taxable_income, state, config),
                           estimate_local_tax(taxable_income, state, config))
         IN  with(state_config(state, year))

(***************************************************************************)
(* models/income.rs                                                        *)
(***************************************************************************)
\* from_annual counting 250 working days a year
from_annual_250_days(annual) ==
    [annual |-> annual,
     monthly |-> Div(annual, FromInt(12)),
     bi_weekly |-> Div(annual, FromInt(26)),
     weekly |-> Div(annual, FromInt(52)),
     daily |-> Div(annual, FromInt(250)),
     hourly |-> Div(annual, FromInt(2080))]

from_annual(annual) ==
    [annual |-> annual,
     monthly |-> Div(annual, FromInt(12)),
     bi_weekly |-> Div(annual, FromInt(26)),
     weekly |-> Div(annual, FromInt(52)),
     daily |-> Div(annual, FromInt(260)),
     hourly |-> Div(annual, FromInt(2080))]

\* impl Div for Decimal panics ("Division by zero") on a zero divisor
DivPanics(a, b) == b = ZERO

\* TimeframeIncome::from_annual_custom panics when a division of it does
from_annual_custom_panics(annual, hours_per_week, days_per_week) ==
    \/ DivPanics(annual, Mul(FromInt(52), days_per_week))
    \/ DivPanics(annual, Mul(FromInt(52), hours_per_week))

\* from_annual_custom counting 50 working weeks a year
from_annual_custom_50_weeks(annual, hours_per_week, days_per_week) ==
    [annual |-> annual,
     monthly |-> Div(annual, FromInt(12)),
     bi_weekly |-> Div(annual, FromInt(26)),
     weekly |-> Div(annual, FromInt(52)),
     daily |-> Div(annual, Mul(FromInt(50), days_per_week)),
     hourly |-> Div(annual, Mul(FromInt(50), hours_per_week))]

from_annual_custom(annual, hours_per_week, days_per_week) ==
    [annual |-> annual,
     monthly |-> Div(annual, FromInt(12)),
     bi_weekly |-> Div(annual, FromInt(26)),
     weekly |-> Div(annual, FromInt(52)),
     daily |-> Div(annual, Mul(FromInt(52), days_per_week)),
     hourly |-> Div(annual, Mul(FromInt(52), hours_per_week))]

(***************************************************************************)
(* calculators/timeframe.rs                                                *)
(***************************************************************************)
Timeframe ==
    {"Annual", "Monthly", "BiWeekly", "SemiMonthly", "Weekly", "Daily", "Hourly"}

\* Decimal::ONE
ONE == FromInt(1)

divisor(timeframe) ==
    CASE timeframe = "Annual" -> ONE
      [] timeframe = "Monthly" -> FromInt(12)
      [] timeframe = "BiWeekly" -> FromInt(26)
      [] timeframe = "SemiMonthly" -> FromInt(24)
      [] timeframe = "Weekly" -> FromInt(52)
      [] timeframe = "Daily" -> FromInt(260)
      [] timeframe = "Hourly" -> FromInt(2080)

\* to_annual dividing by the number of periods instead of multiplying
to_annual_divides(amount, from) == Div(amount, divisor(from))

to_annual(amount, from) == Mul(amount, divisor(from))

convert(amount, from, to) == Div(to_annual(amount, from), divisor(to))

hours_to_earn(hourly_rate, target_amount) ==
    IF Le(hourly_rate, ZERO) THEN ZERO ELSE Div(target_amount, hourly_rate)

days_to_earn(daily_rate, target_amount) ==
    IF Le(daily_rate, ZERO) THEN ZERO ELSE Div(target_amount, daily_rate)

(***************************************************************************)
(* models/household.rs.  A SplitMethod is <<"Proportional">>, <<"Equal">>  *)
(* or <<"Custom", primary_pct>>.                                           *)
(***************************************************************************)
\* calculate_split dividing whenever the total net is not zero
calculate_split_nonzero_total(primary_net, partner_net, shared_expense, method) ==
    LET total_net == Add(primary_net, partner_net)
        split(primary_ratio, partner_ratio) ==
            [primary_ratio |-> primary_ratio,
             partner_ratio |-> partner_ratio,
             primary_monthly_amount |-> Mul(shared_expense, primary_ratio),
             partner_monthly_amount |-> Mul(shared_expense, partner_ratio)]
        ratios(primary) == split(primary, Sub(ONE, primary))
    IN  CASE method[1] = "Proportional" ->
                 IF total_net # ZERO
                 THEN ratios(Div(primary_net, total_net))
                 ELSE split(dec(5, 1), dec(5, 1))
          [] method[1] = "Equal" -> split(dec(5, 1), dec(5, 1))
          [] method[1] = "Custom" -> ratios(method[2])

calculate_split(primary_net, partner_net, shared_expense, method) ==
    LET total_net == Add(primary_net, partner_net)
        split(primary_ratio, partner_ratio) ==
            [primary_ratio |-> primary_ratio,
             partner_ratio |-> partner_ratio,
             primary_monthly_amount |-> Mul(shared_expense, primary_ratio),
             partner_monthly_amount |-> Mul(shared_expense, partner_ratio)]
        ratios(primary) == split(primary, Sub(ONE, primary))
    IN  CASE method[1] = "Proportional" ->
                 IF Gt(total_net, ZERO)
                 THEN ratios(Div(primary_net, total_net))
                 ELSE split(dec(5, 1), dec(5, 1))
          [] method[1] = "Equal" -> split(dec(5, 1), dec(5, 1))
          [] method[1] = "Custom" -> ratios(method[2])

(***************************************************************************)
(* engine.rs                                                               *)
(***************************************************************************)
\* EffectiveRates::default()
EffectiveRates_default ==
    [federal |-> ZERO, state |-> ZERO, fica |-> ZERO, total |-> ZERO]

\* the federal taxable income without the pre-tax deductions taken off
calc_federal_taxable_ignores_pre_tax(gross_income, total_pre_tax, std_deduction) ==
    Max(Sub(gross_income, std_deduction), ZERO)

\* Step 2: federal taxable income
calc_federal_taxable(gross_income, total_pre_tax, std_deduction) ==
    Max(Sub(Sub(gross_income, total_pre_tax), std_deduction), ZERO)

\* the total taxes without FICA
calc_total_taxes_without_fica(federal_result, state_result, fica_result) ==
    Add(federal_result.tax, state_result.total_tax)

\* Step 6: total taxes
calc_total_taxes(federal_result, state_result, fica_result) ==
    Add(Add(federal_result.tax, state_result.total_tax), fica_result.total)

\* net income that forgets the post-tax deductions
calc_net_income_no_post(gross_income, total_taxes, total_pre_tax, total_post_tax) ==
    Sub(Sub(gross_income, total_taxes), total_pre_tax)

\* net income with the post-tax deductions taken off twice
calc_net_income_post_tax_twice(gross_income, total_taxes, total_pre_tax, total_post_tax) ==
    Sub(Sub(Sub(Sub(gross_income, total_taxes), total_pre_tax), total_post_tax),
        total_post_tax)

\* Step 8: net income
calc_net_income(gross_income, total_taxes, total_pre_tax, total_post_tax) ==
    Sub(Sub(Sub(gross_income, total_taxes), total_pre_tax), total_post_tax)

\* the take-home percentage guarded against a zero gross income only
calc_take_home_pct_nonzero(net_income, gross_income) ==
    IF gross_income # ZERO
    THEN Mul(Div(net_income, gross_income), FromInt(100))
    ELSE ZERO

\* Step 10: take-home percentage
calc_take_home_pct(net_income, gross_income) ==
    IF Gt(gross_income, ZERO)
    THEN Mul(Div(net_income, gross_income), FromInt(100))
    ELSE ZERO

\* effective rates whose state rate is the state result's own rate (over the
\* state taxable income instead of the gross income)
build_effective_rates_state_base(federal_result, state_result, fica_result, total_taxes, gross_income) ==
    IF Gt(gross_income, ZERO)
    THEN [federal |-> Div(federal_result.tax, gross_income),
          state |-> state_result.effective_rate,
          fica |-> Div(fica_result.total, gross_income),
          total |-> Div(total_taxes, gross_income)]
    ELSE EffectiveRates_default

\* Build effective rates
build_effective_rates(federal_result, state_result, fica_result, total_taxes, gross_income) ==
    IF Gt(gross_income, ZERO)
    THEN [federal |-> Div(federal_result.tax, gross_income),
          state |-> Div(state_result.total_tax, gross_income),
          fica |-> Div(fica_result.total, gross_income),
          total |-> Div(total_taxes, gross_income)]
    ELSE EffectiveRates_default

\* the engine running the FICA calculator on gross income less the pre-tax
\* deductions and the traditional 401k
TaxCalculationEngine_calculate_fica_after_pre_tax(input, year) ==
    LET total_pre_tax == Add(input.pre_tax_deductions, input.traditional_401k)
        total_post_tax == Add(input.post_tax_deductions, input.roth_401k)
        result(federal_result, state_result, fica_result, total_taxes, net_income, effective_rates) ==
            [income |-> [gross |-> input.gross_income,
                         net |-> net_income,
                         timeframes |-> from_annual(net_income),
                         take_home_percentage |->
                             calc_take_home_pct(net_income, input.gross_income)],
             tax_breakdown |-> [federal |-> federal_result,
                                state |-> state_result,
                                fica |-> fica_result,
                                total_taxes |-> total_taxes,
                                effective_rate |-> effective_rates.total],
             effective_rates |-> effective_rates]
        net(federal_result, state_result, fica_result, total_taxes) ==
            result(federal_result, state_result, fica_result, total_taxes,
                   calc_net_income(input.gross_income, total_taxes, total_pre_tax,
                                   total_post_tax),
                   build_effective_rates(federal_result, state_result, fica_result,
                                         total_taxes, input.gross_income))
        taxes(federal_result, state_result, fica_result) ==
            net(federal_result, state_result, fica_result,
                calc_total_taxes(federal_result, state_result, fica_result))
    IN  taxes(FederalTaxCalculator_calculate(
                  calc_federal_taxable(input.gross_income, total_pre_tax,
                                       standard_deduction(input.filing_status, year)),
                  input.filing_status, year),
              StateTaxCalculator_calculate(Sub(input.gross_income, total_pre_tax),
                                           input.state, input.filing_status, year),
              calculate_with_status(Sub(input.gross_income, total_pre_tax),
                                    input.filing_status, year))

\* The steps are chained through local operators, each receiving the values
\* computed so far: steps 1-5 in the body, 6 in taxes, 7-8 and the rates in
\* net, 9-10 and the result in result.
TaxCalculationEngine_calculate(input, year) ==
    LET total_pre_tax == Add(input.pre_tax_deductions, input.traditional_401k)
        total_post_tax == Add(input.post_tax_deductions, input.roth_401k)
        result(federal_result, state_result, fica_result, total_taxes, net_income, effective_rates) ==
            [income |-> [gross |-> input.gross_income,
                         net |-> net_income,
                         timeframes |-> from_annual(net_income),
                         take_home_percentage |->
                             calc_take_home_pct(net_income, input.gross_income)],
             tax_breakdown |-> [federal |-> federal_result,
                                state |-> state_result,
                                fica |-> fica_result,
                                total_taxes |-> total_taxes,
                                effective_rate |-> effective_rates.total],
             effective_rates |-> effective_rates]
        net(federal_result, state_result, fica_result, total_taxes) ==
            result(federal_result, state_result, fica_result, total_taxes,
                   calc_net_income(input.gross_income, total_taxes, total_pre_tax,
                                   total_post_tax),
                   build_effective_rates(federal_result, state_result, fica_result,
                                         total_taxes, input.gross_income))
        taxes(federal_result, state_result, fica_result) ==
            net(federal_result, state_result, fica_result,
                calc_total_taxes(federal_result, state_result, fica_result))
    IN  taxes(FederalTaxCalculator_calculate(
                  calc_federal_taxable(input.gross_income, total_pre_tax,
                                       standard_deduction(input.filing_status, year)),
                  input.filing_status, year),
              StateTaxCalculator_calculate(Sub(input.gross_income, total_pre_tax),
                                           input.state, input.filing_status, year),
              calculate_with_status(input.gross_income, input.filing_status, year))

\* compare_scenarios measuring the scenario net against the base gross
compare_scenarios_gross(base, scenario, year) ==
    LET comparison(base_result, scenario_result, net_diff) ==
            [base |-> base_result,
             scenario |-> scenario_result,
             net_difference |-> net_diff,
             monthly_difference |-> Div(net_diff, FromInt(12))]
        difference(base_result, scenario_result) ==
            comparison(base_result, scenario_result,
                       Sub(scenario_result.income.net, base_result.income.gross))
    IN  difference(TaxCalculationEngine_calculate(base, year),
                   TaxCalculationEngine_calculate(scenario, year))

\* compare_scenarios running the engine on the base input twice
compare_scenarios_shared(base, scenario, year) ==
    LET comparison(base_result, scenario_result, net_diff) ==
            [base |-> base_result,
             scenario |-> scenario_result,
             net_difference |-> net_diff,
             monthly_difference |-> Div(net_diff, FromInt(12))]
        difference(base_result, scenario_result) ==
            comparison(base_result, scenario_result,
                       Sub(scenario_result.income.net, base_result.income.net))
    IN  difference(TaxCalculationEngine_calculate(base, year),
                   TaxCalculationEngine_calculate(base, year))

compare_scenarios(base, scenario, year) ==
    LET comparison(base_result, scenario_result, net_diff) ==
            [base |-> base_result,
             scenario |-> scenario_result,
             net_difference |-> net_diff,
             monthly_difference |-> Div(net_diff, FromInt(12))]
        difference(base_result, scenario_result) ==
            comparison(base_result, scenario_result,
                       Sub(scenario_result.income.net, base_result.income.net))
    IN  difference(TaxCalculationEngine_calculate(base, year),
                   TaxCalculationEngine_calculate(scenario, year))

\* ScenarioComparison::is_positive
is_positive(comparison) == Gt(comparison.net_difference, ZERO)

\* ScenarioComparison::net_difference_percent
net_difference_percent(comparison) ==
    IF Gt(comparison.base.income.net, ZERO)
    THEN Mul(Div(comparison.net_difference, comparison.base.income.net), FromInt(100))
    ELSE ZERO

(***************************************************************************)
(* ffi.rs: the boundary.  A text that the code reads character by          *)
(* character (a decimal, a state code) is a sequence of one-character      *)
(* strings; a text that it only compares as a whole (a filing status) is a *)
(* string.  A Result is Ok(value) or Err(kind, message).                   *)
(***************************************************************************)
Ok(v) == [ok |-> TRUE, value |-> v]

Err(kind, message) == [ok |-> FALSE, kind |-> kind, message |-> message]

\* Decimal::from_str after the sign: digits with at most one point and with
\* '_' separators after the first digit; <<mantissa, scale>>, or None for an
\* unknown character or a text without a digit
RECURSIVE parse_digits(_, _, _, _, _, _)
parse_digits(bytes, i, has_digit, point, mantissa, scale) ==
    LET digits == <<"0", "1", "2", "3", "4", "5", "6", "7", "8", "9">>
        is_digit(b) == \E d \in 1..10 : digits[d] = b
        value(b) == (CHOOSE d \in 1..10 : digits[d] = b) - 1
    IN  IF i > Len(bytes)
        THEN IF has_digit THEN Some(<<mantissa, scale>>) ELSE None
        ELSE IF is_digit(bytes[i])
        THEN parse_digits(bytes, i + 1, TRUE, point,
                          10 * mantissa + value(bytes[i]),
                          IF point THEN scale + 1 ELSE scale)
        ELSE IF bytes[i] = "." /\ ~point
        THEN parse_digits(bytes, i + 1, has_digit, TRUE, mantissa, scale)
        ELSE IF bytes[i] = "_" /\ has_digit
        THEN parse_digits(bytes, i + 1, has_digit, point, mantissa, scale)
        ELSE None

\* s.parse::<Decimal>(): Some(value) or None; the texts of the model have at
\* most ScaleDigits fractional digits and a mantissa below 2^31
from_str(bytes) ==
    LET value(neg, parsed) ==
            IF parsed = None THEN None
            ELSE Some(IF neg THEN Neg(dec(parsed[1][1], parsed[1][2]))
                      ELSE dec(parsed[1][1], parsed[1][2]))
    IN  IF bytes = << >> THEN None
        ELSE IF bytes[1] = "-" THEN value(TRUE, parse_digits(bytes, 2, FALSE, FALSE, 0, 0))
        ELSE IF bytes[1] = "+" THEN value(FALSE, parse_digits(bytes, 2, FALSE, FALSE, 0, 0))
        ELSE value(FALSE, parse_digits(bytes, 1, FALSE, FALSE, 0, 0))

parse_decimal(s) ==
    LET map_err(parsed) ==
            IF parsed = None THEN Err("InvalidDecimal", s) ELSE Ok(parsed[1])
    IN  map_err(from_str(s))

parse_filing_status(s) ==
    CASE s = "single" -> Ok("Single")
      [] s = "married_filing_jointly" -> Ok("MarriedFilingJointly")
      [] s = "married_filing_separately" -> Ok("MarriedFilingSeparately")
      [] s = "head_of_household" -> Ok("HeadOfHousehold")
      [] s = "qualifying_widower" -> Ok("QualifyingWidower")
      [] OTHER -> Err("InvalidFilingStatus", s)

\* str::to_uppercase on the characters of the model (ASCII)
to_uppercase(s) ==
    LET lower == <<"a", "b", "c", "d", "e", "f", "g", "h", "i", "j", "k", "l", "m",
                   "n", "o", "p", "q", "r", "s", "t", "u", "v", "w", "x", "y", "z">>
        upper == <<"A", "B", "C", "D", "E", "F", "G", "H", "I", "J", "K", "L", "M",
                   "N", "O", "P", "Q", "R", "S", "T", "U", "V", "W", "X", "Y", "Z">>
    IN  [i \in 1..Len(s) |->
            IF \E k \in 1..26 : lower[k] = s[i]
            THEN upper[CHOOSE k \in 1..26 : lower[k] = s[i]]
            ELSE s[i]]

\* USState::from_code
from_code(state_code) ==
    LET match(up) ==
            CASE
             up = <<"A", "L">> -> Some("Alabama")
          [] up = <<"A", "K">> -> Some("Alaska")
          [] up = <<"A", "Z">> -> Some("Arizona")
          [] up = <<"A", "R">> -> Some("Arkansas")
          [] up = <<"C", "A">> -> Some("California")
          [] up = <<"C", "O">> -> Some("Colorado")
          [] up = <<"C", "T">> -> Some("Connecticut")
          [] up = <<"D", "E">> -> Some("Delaware")
          [] up = <<"F", "L">> -> Some("Florida")
          [] up = <<"G", "A">> -> Some("Georgia")
          [] up = <<"H", "I">> -> Some("Hawaii")
          [] up = <<"I", "D">> -> Some("Idaho")
          [] up = <<"I", "L">> -> Some("Illinois")
          [] up = <<"I", "N">> -> Some("Indiana")
          [] up = <<"I", "A">> -> Some("Iowa")
          [] up = <<"K", "S">> -> Some("Kansas")
          [] up = <<"K", "Y">> -> Some("Kentucky")
          [] up = <<"L", "A">> -> Some("Louisiana")
          [] up = <<"M", "E">> -> Some("Maine")
          [] up = <<"M", "D">> -> Some("Maryland")
          [] up = <<"M", "A">> -> Some("Massachusetts")
          [] up = <<"M", "I">> -> Some("Michigan")
          [] up = <<"M", "N">> -> Some("Minnesota")
          [] up = <<"M", "S">> -> Some("Mississippi")
          [] up = <<"M", "O">> -> Some("Missouri")
          [] up = <<"M", "T">> -> Some("Montana")
          [] up = <<"N", "E">> -> Some("Nebraska")
          [] up = <<"N", "V">> -> Some("Nevada")
          [] up = <<"N", "H">> -> Some("NewHampshire")
          [] up = <<"N", "J">> -> Some("NewJersey")
          [] up = <<"N", "M">> -> Some("NewMexico")
          [] up = <<"N", "Y">> -> Some("NewYork")
          [] up = <<"N", "C">> -> Some("NorthCarolina")
          [] up = <<"N", "D">> -> Some("NorthDakota")
          [] up = <<"O", "H">> -> Some("Ohio")
          [] up = <<"O", "K">> -> Some("Oklahoma")
          [] up = <<"O", "R">> -> Some("Oregon")
          [] up = <<"P", "A">> -> Some("Pennsylvania")
          [] up = <<"R", "I">> -> Some("RhodeIsland")
          [] up = <<"S", "C">> -> Some("SouthCarolina")
          [] up = <<"S", "D">> -> Some("SouthDakota")
          [] up = <<"T", "N">> -> Some("Tennessee")
          [] up = <<"T", "X">> -> Some("Texas")
          [] up = <<"U", "T">> -> Some("Utah")
          [] up = <<"V", "T">> -> Some("Vermont")
          [] up = <<"V", "A">> -> Some("Virginia")
          [] up = <<"W", "A">> -> Some("Washington")
          [] up = <<"D", "C">> -> Some("WashingtonDC")
          [] up = <<"W", "V">> -> Some("WestVirginia")
          [] up = <<"W", "I">> -> Some("Wisconsin")
          [] up = <<"W", "Y">> -> Some("Wyoming")
              [] OTHER -> None
    IN  match(to_uppercase(state_code))

\* the fields in the order parse_input evaluates them: the first Err is the
\* result (the ? operator)
first_err(gross, filing_status, state, pre_tax, post_tax, traditional, roth) ==
    IF ~gross.ok THEN gross
    ELSE IF ~filing_status.ok THEN filing_status
    ELSE IF ~state.ok THEN state
    ELSE IF ~pre_tax.ok THEN pre_tax
    ELSE IF ~post_tax.ok THEN post_tax
    ELSE IF ~traditional.ok THEN traditional
    ELSE IF ~roth.ok THEN roth
    ELSE Ok([gross_income |-> gross.value,
             filing_status |-> filing_status.value,
             state |-> state.value,
             pre_tax_deductions |-> pre_tax.value,
             post_tax_deductions |-> post_tax.value,
             traditional_401k |-> traditional.value,
             roth_401k |-> roth.value])

\* Option::ok_or_else(|| InvalidState { message: state })
state_ok_or_else(found, state) ==
    IF found = None THEN Err("InvalidState", state) ELSE Ok(found[1])

\* parse_input with an unrecognised state code read as California
parse_input_default_state(gross, filing_status, state, pre_tax, post_tax, traditional, roth) ==
    first_err(parse_decimal(gross), parse_filing_status(filing_status),
              Ok(unwrap_or(from_code(state), "California")),
              parse_decimal(pre_tax), parse_decimal(post_tax),
              parse_decimal(traditional), parse_decimal(roth))

parse_input(gross, filing_status, state, pre_tax, post_tax, traditional, roth) ==
    first_err(parse_decimal(gross), parse_filing_status(filing_status),
              state_ok_or_else(from_code(state), state),
              parse_decimal(pre_tax), parse_decimal(post_tax),
              parse_decimal(traditional), parse_decimal(roth))

\* parse_input of the seven texts of a scenario
parse_scenario(texts) ==
    parse_input(texts.gross, texts.filing_status, texts.state, texts.pre_tax,
                texts.post_tax, texts.traditional_401k, texts.roth_401k)

\* impl From<TaxCalculationResult> for TaxResultFFI.  A numeric field stands
\* for the text Decimal::to_string prints: the value is kept, the rendering
\* (the number of trailing zeros) is not modelled.
TaxResultFFI_from(r) ==
    [gross_annual |-> r.income.gross,
     net_annual |-> r.income.net,
     net_monthly |-> r.income.timeframes.monthly,
     net_biweekly |-> r.income.timeframes.bi_weekly,
     net_weekly |-> r.income.timeframes.weekly,
     net_daily |-> r.income.timeframes.daily,
     net_hourly |-> r.income.timeframes.hourly,
     take_home_percentage |-> r.income.take_home_percentage,
     federal_tax |-> r.tax_breakdown.federal.tax,
     federal_effective_rate |-> r.tax_breakdown.federal.effective_rate,
     federal_marginal_rate |-> r.tax_breakdown.federal.marginal_rate,
     state_code |-> r.tax_breakdown.state.state_code,
     state_income_tax |-> r.tax_breakdown.state.income_tax,
     state_local_tax |-> r.tax_breakdown.state.local_tax,
     state_sdi |-> r.tax_breakdown.state.sdi,
     state_total_tax |-> r.tax_breakdown.state.total_tax,
     social_security |-> r.tax_breakdown.fica.social_security,
     medicare |-> r.tax_breakdown.fica.medicare,
     additional_medicare |-> r.tax_breakdown.fica.additional_medicare,
     fica_total |-> r.tax_breakdown.fica.total,
     total_taxes |-> r.tax_breakdown.total_taxes,
     total_effective_rate |-> r.effective_rates.total]

\* impl From<ScenarioComparison> for ScenarioComparisonFFI
ScenarioComparisonFFI_from(c) ==
    [base |-> TaxResultFFI_from(c.base),
     scenario |-> TaxResultFFI_from(c.scenario),
     net_difference |-> c.net_difference,
     monthly_difference |-> c.monthly_difference,
     is_positive |-> is_positive(c)]

\* ffi::calculate_taxes
ffi_calculate_taxes(texts) ==
    IF ~parse_scenario(texts).ok THEN parse_scenario(texts)
    ELSE Ok(TaxResultFFI_from(
                TaxCalculationEngine_calculate(parse_scenario(texts).value, 2024)))

\* ffi::compare_scenarios
ffi_compare_scenarios(base_texts, scenario_texts) ==
    IF ~parse_scenario(base_texts).ok THEN parse_scenario(base_texts)
    ELSE IF ~parse_scenario(scenario_texts).ok THEN parse_scenario(scenario_texts)
    ELSE Ok(ScenarioComparisonFFI_from(
                compare_scenarios(parse_scenario(base_texts).value,
                                  parse_scenario(scenario_texts).value, 2024)))

(***************************************************************************)
(* The calls.  MaxOffset is the number of cents explored on each side of a *)
(* threshold of the tables (a bracket floor, the wage base, a surtax       *)
(* threshold).                                                             *)
(***************************************************************************)
MaxOffset == 1

Years == {2024, 2025}

Around(points) == {Add(p, dec(k, 2)) : p \in points, k \in -MaxOffset..MaxOffset}

Floors(brackets) == {brackets[i].floor : i \in 1..Len(brackets)}

FederalIncomes(filing_status) ==
    Around(Floors(build_federal_brackets_2024[filing_status]))
        \cup {dec(-1000, 0), dec(50000, 0), dec(100000, 0), dec(1000000, 0)}

StateIncomes ==
    {dec(-1000, 0), dec(-1, 2), ZERO, dec(1, 2), dec(5000, 0), dec(60000, 0),
     dec(153164, 0), dec(400000, 0)}

FicaIncomes ==
    Around({ZERO, dec(125000, 0), dec(168600, 0), dec(200000, 0), dec(250000, 0)})
        \cup {dec(-1000, 0), dec(100000, 0)}

EngineStates ==
    {"California", "NewYork", "NewJersey", "Oregon", "Hawaii", "Colorado", "Texas"}

EngineInputs ==
    [gross_income : {dec(-1000, 0), ZERO, dec(40000, 0), dec(100000, 0),
                     dec(16860001, 2), dec(260000, 0)},
     filing_status : FilingStatus,
     state : EngineStates,
     pre_tax_deductions : {ZERO, dec(5000, 0)},
     post_tax_deductions : {ZERO, dec(120050, 2)},
     traditional_401k : {ZERO, dec(20000, 0)},
     roth_401k : {ZERO, dec(6000, 0)}]

CompareInputs ==
    [gross_income : {ZERO, dec(100000, 0), dec(150000, 0)},
     filing_status : {"Single", "MarriedFilingJointly"},
     state : {"California", "Colorado", "Texas"},
     pre_tax_deductions : {ZERO},
     post_tax_deductions : {ZERO},
     traditional_401k : {ZERO, dec(20000, 0)},
     roth_401k : {ZERO}]

PercentInputs ==
    [gross_income : {ZERO, dec(100000, 0)},
     filing_status : {"Single"},
     state : {"California", "Texas"},
     pre_tax_deductions : {ZERO},
     post_tax_deductions : {ZERO},
     traditional_401k : {ZERO, dec(20000, 0)},
     roth_401k : {ZERO}]

Amounts ==
    {dec(-1000, 0), ZERO, dec(1, 2), dec(100000, 0), dec(104000, 0),
     dec(7195491, 2)}

Rates == {dec(-50, 0), ZERO, dec(1, 2), dec(50, 0), dec(400, 0)}

HoursPerWeek == {ZERO, dec(20, 0), dec(375, 1), dec(40, 0)}

DaysPerWeek == {ZERO, dec(4, 0), dec(5, 0)}

NetIncomes == {dec(-2000, 0), ZERO, dec(2000, 0), dec(4000, 0), dec(8000, 0)}

SplitMethods ==
    {<<"Proportional">>, <<"Equal">>, <<"Custom", dec(6, 1)>>,
     <<"Custom", dec(15, 1)>>}

\* the texts handed to calculate_taxes: decimals and others ("1e5", "", "5,000",
\* "abc"), known and unknown filing statuses, state codes in either case and
\* unknown ones
TaxTexts ==
    [gross : {<<"1", "0", "0", "0", "0", "0">>, <<"-", "1", "0", "0", "0">>, <<"1", "e", "5">>, <<>>},
     filing_status : {"single", "married_filing_jointly", "Single"},
     state : {<<"C", "A">>, <<"t", "x">>, <<"X", "X">>, <<"C">>},
     pre_tax : {<<"0">>, <<"5", ",", "0", "0", "0">>},
     post_tax : {<<"0">>},
     traditional_401k : {<<"2", "0", "0", "0", "0", ".", "5", "0">>, <<"a", "b", "c">>},
     roth_401k : {<<"0">>}]

ScenarioTexts ==
    [gross : {<<"1", "0", "0", "0", "0", "0">>, <<"1", "2", "x">>},
     filing_status : {"single", "widow"},
     state : {<<"C", "A">>, <<"Z", "Z">>},
     pre_tax : {<<"0">>},
     post_tax : {<<"0">>},
     traditional_401k : {<<"0">>, <<"+", "2", "0", "0", "0", "0">>},
     roth_401k : {<<"0">>}]

\* years handed to the data provider and to TaxCalculationEngine::new
ProviderYears == {0, 1999, 2024, 2025, 3000}

VARIABLES pc, op, args, result

vars == <<pc, op, args, result>>

Init ==
    /\ pc = "ready"
    /\ result = None
    /\ \/ /\ op = "federal"
          /\ \E fs \in FilingStatus, y \in Years :
                \E x \in FederalIncomes(fs) :
                    args = [taxable_income |-> x, filing_status |-> fs, year |-> y]
       \/ /\ op = "state"
          /\ args \in [taxable_income : StateIncomes, state : USState,
                       filing_status : FilingStatus, year : {2024}]
       \/ /\ op = "fica"
          /\ args \in [gross_income : FicaIncomes, filing_status : FilingStatus,
                       year : Years]
       \/ /\ op = "calculate"
          /\ args \in [input : EngineInputs, year : {2024}]
                       \cup [input : PercentInputs, year : ProviderYears]
       \/ /\ op = "provider"
          /\ args \in [filing_status : FilingStatus, state : USState,
                       year : ProviderYears]
       \/ /\ op = "compare_scenarios"
          /\ args \in [base : CompareInputs, scenario : CompareInputs, year : {2024}]
       \/ /\ op = "fica_calculate"
          /\ args \in [gross_income : FicaIncomes, year : Years]
       \/ /\ op = "net_difference_percent"
          /\ args \in [base : PercentInputs, scenario : PercentInputs, year : {2024}]
       \/ /\ op = "from_annual"
          /\ args \in [annual : Amounts]
       \/ /\ op = "from_annual_custom"
          /\ args \in [annual : Amounts, hours_per_week : HoursPerWeek,
                       days_per_week : DaysPerWeek]
       \/ /\ op = "to_annual"
          /\ args \in [amount : Amounts, from : Timeframe]
       \/ /\ op = "convert"
          /\ args \in [amount : Amounts, from : Timeframe, to : Timeframe]
       \/ /\ op = "calculate_taxes"
          /\ args \in TaxTexts
       \/ /\ op = "ffi_compare_scenarios"
          /\ args \in [base : ScenarioTexts, scenario : ScenarioTexts]
       \/ /\ op = "round_trip"
          /\ args \in [annual : Amounts, period : Timeframe]
       \/ /\ op = "hours_to_earn"
          /\ args \in [hourly_rate : Rates, target_amount : Amounts]
       \/ /\ op = "days_to_earn"
          /\ args \in [daily_rate : Rates, target_amount : Amounts]
       \/ /\ op = "calculate_split"
          /\ args \in [primary_net : NetIncomes, partner_net : NetIncomes,
                       shared_expense : {ZERO, dec(1000, 0), dec(123456, 2)},
                       method : SplitMethods]

Return(r) ==
    /\ pc' = "done"
    /\ result' = r
    /\ UNCHANGED <<op, args>>

\* the call panics: it ends without a value
Panic ==
    /\ pc' = "panicked"
    /\ UNCHANGED <<op, args, result>>

FederalCalculate ==
    /\ pc = "ready" /\ op = "federal"
    /\ Return(FederalTaxCalculator_calculate(args.taxable_income,
                                             args.filing_status, args.year))

StateCalculate ==
    /\ pc = "ready" /\ op = "state"
    /\ Return(StateTaxCalculator_calculate(args.taxable_income, args.state,
                                           args.filing_status, args.year))

FicaCalculate ==
    /\ pc = "ready" /\ op = "fica"
    /\ Return(calculate_with_status(args.gross_income, args.filing_status,
                                    args.year))

EngineCalculate ==
    /\ pc = "ready" /\ op = "calculate"
    /\ Return(TaxCalculationEngine_calculate(args.input, args.year))

CompareScenarios ==
    /\ pc = "ready" /\ op = "compare_scenarios"
    /\ Return(compare_scenarios(args.base, args.scenario, args.year))

FicaCalculateDefault ==
    /\ pc = "ready" /\ op = "fica_calculate"
    /\ Return(FicaCalculator_calculate(args.gross_income, args.year))

NetDifferencePercent ==
    /\ pc = "ready" /\ op = "net_difference_percent"
    /\ Return(net_difference_percent(
                  compare_scenarios(args.base, args.scenario, args.year)))

FromAnnual ==
    /\ pc = "ready" /\ op = "from_annual"
    /\ Return(from_annual(args.annual))

FromAnnualCustom ==
    /\ pc = "ready" /\ op = "from_annual_custom"
    /\ IF from_annual_custom_panics(args.annual, args.hours_per_week,
                                    args.days_per_week)
       THEN Panic
       ELSE Return(from_annual_custom(args.annual, args.hours_per_week,
                                      args.days_per_week))

ToAnnual ==
    /\ pc = "ready" /\ op = "to_annual"
    /\ Return(to_annual(args.amount, args.from))

Convert ==
    /\ pc = "ready" /\ op = "convert"
    /\ Return(convert(args.amount, args.from, args.to))

\* an annual amount converted to a period and back, the way back taken both
\* through convert and through to_annual
RoundTrip ==
    /\ pc = "ready" /\ op = "round_trip"
    /\ Return([per_period |-> convert(args.annual, "Annual", args.period),
               back |-> convert(convert(args.annual, "Annual", args.period),
                                args.period, "Annual"),
               annual |-> to_annual(convert(args.annual, "Annual", args.period),
                                    args.period)])

CalculateTaxes ==
    /\ pc = "ready" /\ op = "calculate_taxes"
    /\ Return(ffi_calculate_taxes(args))

FfiCompareScenarios ==
    /\ pc = "ready" /\ op = "ffi_compare_scenarios"
    /\ Return(ffi_compare_scenarios(args.base, args.scenario))

\* the four lookups of the data provider
ProviderLookup ==
    /\ pc = "ready" /\ op = "provider"
    /\ Return([federal_brackets |-> federal_brackets(args.filing_status, args.year),
               standard_deduction |->
                   standard_deduction(args.filing_status, args.year),
               fica_config |-> fica_config(args.year),
               state_config |-> state_config(args.state, args.year)])

HoursToEarn ==
    /\ pc = "ready" /\ op = "hours_to_earn"
    /\ Return(hours_to_earn(args.hourly_rate, args.target_amount))

DaysToEarn ==
    /\ pc = "ready" /\ op = "days_to_earn"
    /\ Return(days_to_earn(args.daily_rate, args.target_amount))

CalculateSplit ==
    /\ pc = "ready" /\ op = "calculate_split"
    /\ Return(calculate_split(args.primary_net, args.partner_net,
                              args.shared_expense, args.method))

Next ==
    \/ FederalCalculate
    \/ StateCalculate
    \/ FicaCalculate
    \/ EngineCalculate
    \/ CompareScenarios
    \/ FicaCalculateDefault
    \/ NetDifferencePercent
    \/ FromAnnual
    \/ FromAnnualCustom
    \/ ToAnnual
    \/ Convert
    \/ RoundTrip
    \/ CalculateTaxes
    \/ FfiCompareScenarios
    \/ ProviderLookup
    \/ HoursToEarn
    \/ DaysToEarn
    \/ CalculateSplit

Spec == Init /\ [][Next]_vars

Done(o) == pc = "done" /\ op = o

(***************************************************************************)
(* Pairs of inputs that differ in one respect, handed to compare_scenarios *)
(* (the pairs of test_401k_reduces_taxes, test_scenario_comparison_raise   *)
(* and test_scenario_comparison_state_move, for every state).              *)
(***************************************************************************)
\* a TaxCalculationInput without post-tax deductions
Input(gross_income, filing_status, state, traditional_401k) ==
    [gross_income |-> gross_income,
     filing_status |-> filing_status,
     state |-> state,
     pre_tax_deductions |-> ZERO,
     post_tax_deductions |-> ZERO,
     traditional_401k |-> traditional_401k,
     roth_401k |-> ZERO]

\* the call compare_scenarios(base, scenario) of an engine for 2024
Pair(base, scenario) == [base |-> base, scenario |-> scenario, year |-> 2024]

\* the scenario contributes more to the traditional 401k
Larger401k ==
    {Pair(Input(g, fs, st, t[1]), Input(g, fs, st, t[2])) :
        g \in {ZERO, dec(40000, 0), dec(260000, 0)},
        fs \in FilingStatus,
        st \in EngineStates,
        t \in {<<ZERO, dec(20000, 0)>>, <<ZERO, dec(30000, 0)>>,
               <<dec(20000, 0), dec(30000, 0)>>, <<dec(20000, 0), dec(2000001, 2)>>}}

\* the scenario has a higher gross income
Raises ==
    LET gross_pairs ==
            {<<ZERO, dec(10000, 0)>>, <<ZERO, dec(40000, 0)>>,
             <<ZERO, dec(10000001, 2)>>, <<dec(40000, 0), dec(10000001, 2)>>,
             <<dec(40000, 0), dec(1000000, 0)>>, <<dec(100000, 0), dec(10000001, 2)>>,
             <<dec(100000, 0), dec(1000000, 0)>>, <<dec(260000, 0), dec(1000000, 0)>>}
    IN  {Pair(Input(g[1], fs, st, ZERO), Input(g[2], fs, st, ZERO)) :
            g \in gross_pairs, fs \in FilingStatus, st \in USState}
        \cup {Pair(Input(g[1], fs, st, dec(20000, 0)),
                   Input(g[2], fs, st, dec(20000, 0))) :
                 g \in gross_pairs, fs \in FilingStatus, st \in EngineStates}

\* the scenario is in a state without income tax
StateMoves ==
    {Pair(Input(g, "Single", st, t), Input(g, "Single", to, t)) :
        g \in {ZERO, dec(100000, 0)},
        t \in {ZERO, dec(20000, 0)},
        st \in USState,
        to \in {x \in USState : has_no_income_tax(x)}}

\* the scenario differs in the post-tax deductions and the Roth contribution
PostTaxChanges ==
    {Pair([b EXCEPT !.post_tax_deductions = post[1], !.roth_401k = roth[1]],
          [b EXCEPT !.post_tax_deductions = post[2], !.roth_401k = roth[2]]) :
        b \in {Input(g, fs, st, t) : g \in {ZERO, dec(100000, 0)},
                                     fs \in {"Single", "MarriedFilingJointly"},
                                     st \in EngineStates,
                                     t \in {ZERO, dec(20000, 0)}},
        post \in {ZERO, dec(120050, 2)} \X {ZERO, dec(120050, 2), dec(3000, 0)},
        roth \in {ZERO, dec(6000, 0)} \X {ZERO, dec(6000, 0)}}

ScenarioInit ==
    /\ pc = "ready"
    /\ result = None
    /\ op = "compare_scenarios"
    /\ args \in Larger401k \cup Raises \cup StateMoves \cup PostTaxChanges

ScenarioNext == CompareScenarios

ScenarioSpec == ScenarioInit /\ [][ScenarioNext]_vars

(***************************************************************************)
(* Properties of the federal calculator and of the tables.                 *)
(***************************************************************************)
RECURSIVE SumTaxPaid(_)
SumTaxPaid(breakdown) ==
    IF breakdown = << >> THEN ZERO
    ELSE Add(breakdown[1].tax_paid, SumTaxPaid(Tail(breakdown)))

\* C1: for a federal taxable income x > 0 the closed-form tax of the result
\* and the sum of tax_paid over its bracket breakdown differ by less than 0.01
C1_ClosedFormMatchesBreakdown ==
    (Done("federal") /\ Gt(args.taxable_income, ZERO)) =>
        Lt(Abs(Sub(result.tax, SumTaxPaid(result.bracket_breakdown))), dec(1, 2))

C1_Witness ==
    /\ Done("federal")
    /\ Gt(args.taxable_income, ZERO)
    /\ Len(result.bracket_breakdown) >= 3
    /\ Gt(result.tax, dec(17000, 0))
    /\ result.tax = SumTaxPaid(result.bracket_breakdown)

\* C2: for a federal taxable income x > 0, also one equal to a bracket floor,
\* the marginal rate of the result is the rate of the bracket that contains x
C2_MarginalRateOfContainingBracket ==
    (Done("federal") /\ Gt(args.taxable_income, ZERO)) =>
        LET brackets == federal_brackets(args.filing_status, args.year)
        IN  \A i \in 1..Len(brackets) :
                contains(brackets[i], args.taxable_income) =>
                    result.marginal_rate = brackets[i].rate

\* C4: a taxable income <= 0 yields zero tax and an empty or absent
\* breakdown, in the federal calculator and in the state calculator
C4_NonPositiveIncomeZeroTax ==
    /\ (Done("federal") /\ Le(args.taxable_income, ZERO)) =>
           /\ result.tax = ZERO
           /\ result.effective_rate = ZERO
           /\ result.bracket_breakdown = << >>
    /\ (Done("state") /\ Le(args.taxable_income, ZERO)) =>
           /\ result.income_tax = ZERO
           /\ result.sdi = ZERO
           /\ result.local_tax = ZERO
           /\ result.total_tax = ZERO
           /\ result.bracket_breakdown = None

\* sorted by floor, from floor 0 and base tax 0, contiguous, only the last
\* bracket unbounded, base_tax[i] = base_tax[i-1] + rate[i-1] * (floor[i] - floor[i-1])
WellFormed(brackets) ==
    /\ brackets # << >>
    /\ brackets[1].floor = ZERO
    /\ brackets[1].base_tax = ZERO
    /\ brackets[Len(brackets)].ceiling = None
    /\ \A i \in 2..Len(brackets) :
          /\ Lt(brackets[i - 1].floor, brackets[i].floor)
          /\ brackets[i - 1].ceiling = Some(brackets[i].floor)
          /\ brackets[i].base_tax =
                 Add(brackets[i - 1].base_tax,
                     Mul(brackets[i - 1].rate,
                         Sub(brackets[i].floor, brackets[i - 1].floor)))

\* C5: every bracket list of the embedded data set (the federal lists and
\* every per-filing-status list of every state configuration) is well formed;
\* stated of the lists of the filing status and of the state of the call
C5_BracketListsWellFormed ==
    /\ op = "federal" =>
           WellFormed(federal_brackets(args.filing_status, args.year))
    /\ op = "state" =>
           LET config == state_config(args.state, args.year)
           IN  \A k \in DOMAIN config.brackets : WellFormed(config.brackets[k])

\* C6: the federal tax is non-decreasing in the taxable income: no smaller
\* income of the same filing status is taxed more than the income of the call
C6_FederalTaxMonotone ==
    Done("federal") =>
        \A x \in FederalIncomes(args.filing_status) :
            Le(x, args.taxable_income) =>
                Le(FederalTaxCalculator_calculate(x, args.filing_status,
                                                  args.year).tax,
                   result.tax)

C6_Witness ==
    /\ Done("federal")
    /\ args.taxable_income = dec(100525, 0)
    /\ args.filing_status = "Single"
    /\ result.tax = dec(1716850, 2)
    /\ Lt(FederalTaxCalculator_calculate(dec(10052499, 2), "Single", args.year).tax,
          result.tax)

(***************************************************************************)
(* Properties of the engine.                                               *)
(***************************************************************************)
NoDeductions(input) ==
    /\ input.pre_tax_deductions = ZERO
    /\ input.traditional_401k = ZERO
    /\ input.post_tax_deductions = ZERO
    /\ input.roth_401k = ZERO

RatesAllZero(rates) ==
    /\ rates.federal = ZERO
    /\ rates.state = ZERO
    /\ rates.fica = ZERO
    /\ rates.total = ZERO

C7_NetIncomeIdentity ==
    Done("calculate") =>
        LET input == args.input
            taxes == result.tax_breakdown
        IN  /\ taxes.total_taxes =
                   Add(taxes.federal.tax, Add(taxes.state.total_tax, taxes.fica.total))
            /\ Add(result.income.net,
                   Add(taxes.total_taxes,
                       Add(Add(input.pre_tax_deductions, input.traditional_401k),
                           Add(input.post_tax_deductions, input.roth_401k))))
                   = input.gross_income
            /\ result.income.timeframes.annual = result.income.net

C7_Witness ==
    /\ Done("calculate")
    /\ Gt(args.input.gross_income, ZERO)
    /\ Gt(args.input.pre_tax_deductions, ZERO)
    /\ Gt(args.input.traditional_401k, ZERO)
    /\ Gt(args.input.post_tax_deductions, ZERO)
    /\ Gt(args.input.roth_401k, ZERO)
    /\ Gt(result.tax_breakdown.federal.tax, ZERO)
    /\ Gt(result.tax_breakdown.state.total_tax, ZERO)
    /\ Gt(result.income.net, ZERO)

\* C8: for gross income > 0 the total effective rate is within 0.001 of the
\* sum of the federal, state and fica effective rates, and the effective rate
\* of the tax breakdown is the total effective rate
C8_EffectiveRatesSum ==
    (Done("calculate") /\ Gt(args.input.gross_income, ZERO)) =>
        LET rates == result.effective_rates
        IN  /\ Lt(Abs(Sub(rates.total,
                          Add(Add(rates.federal, rates.state), rates.fica))),
                  dec(1, 3))
            /\ result.tax_breakdown.effective_rate = rates.total

C8_Witness ==
    /\ Done("calculate")
    /\ Gt(args.input.gross_income, ZERO)
    /\ Gt(result.effective_rates.federal, ZERO)
    /\ Gt(result.effective_rates.state, ZERO)
    /\ Gt(result.effective_rates.fica, ZERO)
    /\ result.effective_rates.total #
           Add(Add(result.effective_rates.federal, result.effective_rates.state),
               result.effective_rates.fica)

\* C9: the net difference (and the monthly difference) of comparing A with B
\* is the negation of that of comparing B with A
C9_ScenarioSymmetry ==
    Done("compare_scenarios") =>
        LET swapped == compare_scenarios(args.scenario, args.base, args.year)
        IN  /\ result.net_difference = Neg(swapped.net_difference)
            /\ result.monthly_difference = Neg(swapped.monthly_difference)

C9_Witness ==
    /\ Done("compare_scenarios")
    /\ args.base # args.scenario
    /\ Lt(result.net_difference, ZERO)
    /\ Lt(result.monthly_difference, ZERO)

\* C10: the base and scenario fields of a comparison are the results of the
\* engine on the base input alone and on the scenario input alone, the net
\* difference is scenario net less base net, the monthly difference a
\* twelfth of it, and is_positive holds exactly when the scenario nets more
C10_ComparisonDerived ==
    Done("compare_scenarios") =>
        /\ result.base = TaxCalculationEngine_calculate(args.base, args.year)
        /\ result.scenario = TaxCalculationEngine_calculate(args.scenario, args.year)
        /\ Add(result.net_difference, result.base.income.net)
               = result.scenario.income.net
        /\ Le(Abs(Sub(Mul(result.monthly_difference, FromInt(12)),
                      result.net_difference)),
              dec(6, ScaleDigits))
        /\ is_positive(result) <=>
               Gt(result.scenario.income.net, result.base.income.net)

C10_Witness ==
    /\ Done("compare_scenarios")
    /\ args.base.state = "California"
    /\ args.scenario.state = "Texas"
    /\ args.base.gross_income = args.scenario.gross_income
    /\ result.base # result.scenario
    /\ is_positive(result)
    /\ Gt(result.monthly_difference, ZERO)

(***************************************************************************)
(* Properties of the FICA calculator.                                      *)
(***************************************************************************)
\* C11: social_security is min(gross, wage_base) * social_security_rate, so
\* the same amount for every gross >= wage_base; medicare is gross *
\* medicare_rate without a cap; total is the sum of the three parts
C11_FicaParts ==
    Done("fica") =>
        LET gross == args.gross_income
            config == fica_config(args.year)
        IN  /\ result.social_security =
                   Mul(Min(gross, config.wage_base), config.social_security_rate)
            /\ Ge(gross, config.wage_base) =>
                   result.social_security = dec(1045320, 2)
            /\ result.medicare = Mul(gross, config.medicare_rate)
            /\ result.total =
                   Add(Add(result.social_security, result.medicare),
                       result.additional_medicare)

C11_Witness ==
    /\ Done("fica")
    /\ Gt(args.gross_income, dec(168600, 0))
    /\ result.social_security = dec(1045320, 2)
    /\ Gt(result.medicare, dec(244470, 2))
    /\ Gt(result.additional_medicare, ZERO)
    /\ Gt(result.total, dec(14000, 0))

\* C12: the surtax is (gross - threshold) * additional_medicare_rate above
\* the threshold of the filing status (200000, 250000 married jointly, 125000
\* married separately) and 0 up to and at the threshold; the status-less
\* calculate gives what calculate_with_status gives for Single
C12_Surtax ==
    /\ Done("fica") =>
           LET gross == args.gross_income
               threshold ==
                   CASE args.filing_status = "MarriedFilingJointly" -> dec(250000, 0)
                     [] args.filing_status = "MarriedFilingSeparately" -> dec(125000, 0)
                     [] OTHER -> dec(200000, 0)
           IN  result.additional_medicare =
                   IF Gt(gross, threshold)
                   THEN Mul(Sub(gross, threshold), dec(9, 3))
                   ELSE ZERO
    /\ Done("fica_calculate") =>
           /\ result = calculate_with_status(args.gross_income, "Single", args.year)
           /\ result.additional_medicare =
                  IF Gt(args.gross_income, dec(200000, 0))
                  THEN Mul(Sub(args.gross_income, dec(200000, 0)), dec(9, 3))
                  ELSE ZERO

C12_Witness ==
    /\ Done("fica_calculate")
    /\ args.gross_income = dec(20000001, 2)
    /\ result.additional_medicare = dec(9, 5)
    /\ result = calculate_with_status(args.gross_income, "HeadOfHousehold", args.year)
    /\ result # calculate_with_status(args.gross_income, "MarriedFilingJointly", args.year)

\* the input with the gross income and filing status of input and nothing else
GrossAndStatusOnly(input) ==
    [gross_income |-> input.gross_income, filing_status |-> input.filing_status,
     state |-> "Texas", pre_tax_deductions |-> ZERO, post_tax_deductions |-> ZERO,
     traditional_401k |-> ZERO, roth_401k |-> ZERO]

\* C13: the FICA result of the engine is that of the FICA calculator on the
\* gross income and filing status, hence the same as for the input that
\* shares only the gross income and the filing status
C13_FicaDependsOnGrossAndStatus ==
    Done("calculate") =>
        /\ result.tax_breakdown.fica =
               calculate_with_status(args.input.gross_income,
                                     args.input.filing_status, args.year)
        /\ result.tax_breakdown.fica =
               TaxCalculationEngine_calculate(GrossAndStatusOnly(args.input),
                                              args.year).tax_breakdown.fica

C13_Witness ==
    /\ Done("calculate")
    /\ args.input.state = "California"
    /\ Gt(args.input.pre_tax_deductions, ZERO)
    /\ Gt(args.input.traditional_401k, ZERO)
    /\ Gt(args.input.post_tax_deductions, ZERO)
    /\ Gt(args.input.roth_401k, ZERO)
    /\ result.tax_breakdown.fica.social_security = dec(6200, 0)
    /\ result.tax_breakdown.fica =
           TaxCalculationEngine_calculate(GrossAndStatusOnly(args.input),
                                          args.year).tax_breakdown.fica

(***************************************************************************)
(* Properties of the state calculator.                                     *)
(***************************************************************************)
\* C14: in each of the nine no-income-tax states, for every taxable income
\* and filing status, income tax, sdi, local tax, total tax and effective
\* rate are 0 and there is no bracket breakdown
C14_NoTaxStatesAllZero ==
    (Done("state") /\ args.state \in {"Alaska", "Florida", "Nevada", "NewHampshire",
                                      "SouthDakota", "Tennessee", "Texas",
                                      "Washington", "Wyoming"}) =>
        /\ result.income_tax = ZERO
        /\ result.sdi = ZERO
        /\ result.local_tax = ZERO
        /\ result.total_tax = ZERO
        /\ result.effective_rate = ZERO
        /\ result.bracket_breakdown = None

C14_Witness ==
    /\ Done("state")
    /\ args.state = "Texas"
    /\ args.taxable_income = dec(400000, 0)
    /\ has_no_income_tax(args.state)
    /\ result.state_code = "TX"
    /\ result.total_tax = ZERO
    /\ result.bracket_breakdown = None

\* the branch StateTaxCalculator::calculate takes for a state
Branch(state) ==
    IF has_no_income_tax(state) THEN "NoTax"
    ELSE IF has_flat_tax(state) THEN "FlatRate"
    ELSE "Progressive"

\* C15: for every state the branch taken is the tax_type of its
\* configuration; a FlatRate configuration gives income_tax = taxable_income *
\* flat_rate and no breakdown
C15_BranchMatchesTaxType ==
    Done("state") =>
        LET config == state_config(args.state, args.year)
        IN  /\ Branch(args.state) = config.tax_type
            /\ config.tax_type = "NoTax" => result.income_tax = ZERO
            /\ config.tax_type = "FlatRate" =>
                   /\ is_some(config.flat_rate)
                   /\ result.income_tax = Mul(args.taxable_income, config.flat_rate[1])
                   /\ result.bracket_breakdown = None
            /\ (/\ config.tax_type = "Progressive"
                /\ as_str(args.filing_status) \in DOMAIN config.brackets
                /\ Gt(args.taxable_income, dec(30000, 0))) =>
                   is_some(result.bracket_breakdown)

C15_Witness ==
    /\ Done("state")
    /\ args.state = "Utah"
    /\ args.taxable_income = dec(60000, 0)
    /\ state_config(args.state, args.year).tax_type = "FlatRate"
    /\ result.income_tax = dec(2790, 0)
    /\ result.bracket_breakdown = None

\* C16: in the progressive branch a filing status without a bracket list
\* gets the empty list and one without a deduction the deduction 0; with the
\* empty list the income tax is 0 and there is no breakdown, otherwise the
\* brackets are evaluated on max(0, taxable_income - deduction); sdi and local
\* tax are computed all the same
C16_MissingFilingStatusKey ==
    (Done("state") /\ Branch(args.state) = "Progressive") =>
        LET config == state_config(args.state, args.year)
            key == as_str(args.filing_status)
            brackets ==
                IF key \in DOMAIN config.brackets THEN config.brackets[key]
                ELSE << >>
            deduction ==
                IF config.standard_deduction = None THEN ZERO
                ELSE IF key \in DOMAIN config.standard_deduction[1]
                     THEN config.standard_deduction[1][key]
                     ELSE ZERO
            adjusted_income ==
                IF Gt(args.taxable_income, deduction)
                THEN Sub(args.taxable_income, deduction)
                ELSE ZERO
            evaluated == calculate_progressive(adjusted_income, brackets)
        IN  /\ brackets = << >> =>
                   /\ result.income_tax = ZERO
                   /\ result.bracket_breakdown = None
            /\ result.income_tax = evaluated[1]
            /\ result.bracket_breakdown = evaluated[2]
            /\ result.sdi = calculate_sdi(args.taxable_income, args.state, config)
            /\ result.local_tax =
                   estimate_local_tax(args.taxable_income, args.state, config)

C16_Witness ==
    /\ Done("state")
    /\ args.state = "NewYork"
    /\ args.filing_status = "MarriedFilingJointly"
    /\ args.taxable_income = dec(60000, 0)
    /\ "married_filing_jointly" \notin
           DOMAIN state_config(args.state, args.year).brackets
    /\ result.income_tax = ZERO
    /\ result.bracket_breakdown = None
    /\ result.local_tax = dec(2100, 0)
    /\ result.total_tax = dec(2100, 0)

\* C17: outside the no-income-tax states sdi is min(income, wage base) * rate
\* in a state with disability insurance (no wage base: no cap; no rate: 0)
\* and 0 elsewhere, local tax is income * average rate in a state with local
\* tax (no rate: 0) and 0 elsewhere, both on the taxable income passed in, and
\* total tax is income tax + sdi + local tax
C17_SdiAndLocalTax ==
    (Done("state") /\ Branch(args.state) # "NoTax") =>
        LET config == state_config(args.state, args.year)
            income == args.taxable_income
            capped ==
                IF config.sdi_wage_base = None THEN income
                ELSE IF Lt(income, config.sdi_wage_base[1]) THEN income
                ELSE config.sdi_wage_base[1]
            sdi_rate == IF config.sdi_rate = None THEN ZERO ELSE config.sdi_rate[1]
            local_rate ==
                IF config.local_tax_info = None THEN ZERO
                ELSE IF config.local_tax_info[1].average_rate = None THEN ZERO
                ELSE config.local_tax_info[1].average_rate[1]
        IN  /\ result.sdi =
                   IF args.state \in {"California", "Hawaii", "NewJersey", "NewYork",
                                      "RhodeIsland"}
                   THEN Mul(capped, sdi_rate)
                   ELSE ZERO
            /\ result.local_tax =
                   IF has_local_tax(args.state) THEN Mul(income, local_rate) ELSE ZERO
            /\ result.total_tax =
                   Add(Add(result.income_tax, result.sdi), result.local_tax)

C17_Witness ==
    /\ Done("state")
    /\ args.state = "California"
    /\ args.filing_status = "Single"
    /\ args.taxable_income = dec(400000, 0)
    /\ result.sdi = dec(1684804, 3)
    /\ Gt(result.income_tax, ZERO)
    /\ result.local_tax = ZERO
    /\ result.total_tax = Add(result.income_tax, result.sdi)

(***************************************************************************)
(* Guards, totality and the timeframes.                                    *)
(***************************************************************************)
\* C18: a zero or negative base gives 0 instead of a division: the engine's
\* take-home percentage and four effective rates for gross income <= 0, the
\* federal and state effective rate for taxable income <= 0,
\* net_difference_percent for a base net <= 0, hours_to_earn and days_to_earn
\* for a rate <= 0
C18_GuardedDivisions ==
    /\ (Done("calculate") /\ Le(args.input.gross_income, ZERO)) =>
           /\ result.income.take_home_percentage = ZERO
           /\ RatesAllZero(result.effective_rates)
    /\ (Done("federal") /\ Le(args.taxable_income, ZERO)) =>
           result.effective_rate = ZERO
    /\ (Done("state") /\ Le(args.taxable_income, ZERO)) =>
           result.effective_rate = ZERO
    /\ (Done("net_difference_percent")
          /\ Le(TaxCalculationEngine_calculate(args.base, args.year).income.net, ZERO)) =>
           result = ZERO
    /\ (Done("hours_to_earn") /\ Le(args.hourly_rate, ZERO)) => result = ZERO
    /\ (Done("days_to_earn") /\ Le(args.daily_rate, ZERO)) => result = ZERO

C18_Witness ==
    /\ Done("calculate")
    /\ Lt(args.input.gross_income, ZERO)
    /\ Lt(result.tax_breakdown.total_taxes, ZERO)
    /\ Lt(result.income.net, ZERO)
    /\ result.income.take_home_percentage = ZERO
    /\ RatesAllZero(result.effective_rates)

\* C19: every core computation returns a value for every input, zero hours
\* or days per week included: no call panics
C19_NoPanic == pc # "panicked"

\* the number of periods of a timeframe in a year
Periods(timeframe) ==
    CASE timeframe = "Annual" -> 1
      [] timeframe = "Monthly" -> 12
      [] timeframe = "BiWeekly" -> 26
      [] timeframe = "SemiMonthly" -> 24
      [] timeframe = "Weekly" -> 52
      [] timeframe = "Daily" -> 260
      [] timeframe = "Hourly" -> 2080

\* part is whole / n as a Decimal quotient: n times part is whole up to the
\* rounding of the last digit
IsQuotient(part, whole, n) ==
    /\ part = Div(whole, dec(n, 0))
    /\ Le(Abs(Sub(Mul(part, dec(n, 0)), whole)), dec(n, ScaleDigits))

\* C20: from_annual(a) has annual = a, monthly = a/12, bi_weekly = a/26,
\* weekly = a/52, daily = a/260 and hourly = a/2080, and the divisor of a
\* timeframe is 1, 12, 26, 24, 52, 260, 2080 (seen through to_annual)
C20_FromAnnualAndDivisors ==
    /\ Done("from_annual") =>
           /\ result.annual = args.annual
           /\ IsQuotient(result.monthly, args.annual, 12)
           /\ IsQuotient(result.bi_weekly, args.annual, 26)
           /\ IsQuotient(result.weekly, args.annual, 52)
           /\ IsQuotient(result.daily, args.annual, 260)
           /\ IsQuotient(result.hourly, args.annual, 2080)
    /\ Done("to_annual") =>
           /\ divisor(args.from) = dec(Periods(args.from), 0)
           /\ result = Mul(args.amount, dec(Periods(args.from), 0))

C20_Witness ==
    /\ Done("from_annual")
    /\ args.annual = dec(104000, 0)
    /\ result.bi_weekly = dec(4000, 0)
    /\ result.weekly = dec(2000, 0)
    /\ result.daily = dec(400, 0)
    /\ result.hourly = dec(50, 0)
    /\ Mul(result.monthly, dec(12, 0)) # args.annual

(***************************************************************************)
(* Conversions between timeframes.                                         *)
(***************************************************************************)
\* C21: an annual amount converted to a timeframe P and back to annual (by
\* convert, or by to_annual of the per-period amount) is the amount again up
\* to the rounding of the per-period amount's last digit, and convert(x, P, P)
\* is x
C21_RoundTrip ==
    /\ Done("round_trip") =>
           /\ result.back = result.annual
           /\ Le(Abs(Sub(result.back, args.annual)),
                 dec(Periods(args.period), ScaleDigits))
    /\ (Done("convert") /\ args.from = args.to) => result = args.amount

C21_Witness ==
    /\ Done("round_trip")
    /\ args.annual = dec(100000, 0)
    /\ args.period = "Monthly"
    /\ result.per_period # ZERO
    /\ result.back # args.annual
    /\ Lt(Abs(Sub(result.back, args.annual)), dec(1, 2))

(***************************************************************************)
(* The boundary.                                                           *)
(***************************************************************************)
\* the monetary texts of a scenario
MonetaryTexts(texts) ==
    {texts.gross, texts.pre_tax, texts.post_tax, texts.traditional_401k,
     texts.roth_401k}

KnownFilingStatusTexts ==
    {"single", "married_filing_jointly", "married_filing_separately",
     "head_of_household", "qualifying_widower"}

\* every field of the scenario parses
AllParse(texts) ==
    /\ \A t \in MonetaryTexts(texts) : from_str(t) # None
    /\ texts.filing_status \in KnownFilingStatusTexts
    /\ from_code(texts.state) # None

\* r is a failure that names a field of the scenario that does not parse,
\* with the kind of that field and its text
NamesAFailure(r, texts) ==
    /\ ~r.ok
    /\ DOMAIN r = {"ok", "kind", "message"}
    /\ CASE r.kind = "InvalidDecimal" ->
                \E t \in MonetaryTexts(texts) : from_str(t) = None /\ r.message = t
         [] r.kind = "InvalidFilingStatus" ->
                /\ texts.filing_status \notin KnownFilingStatusTexts
                /\ r.message = texts.filing_status
         [] r.kind = "InvalidState" ->
                /\ from_code(texts.state) = None
                /\ r.message = texts.state
         [] OTHER -> FALSE

\* C22: calculate_taxes and compare_scenarios of the boundary return a result
\* exactly when every field parses; otherwise the value returned is one
\* failure and nothing else (no part of a calculation): InvalidDecimal with
\* the text of a monetary field that is not a decimal, InvalidFilingStatus
\* with an identifier outside the five known ones, or InvalidState with a
\* code that from_code does not recognise
C22_BoundaryFailures ==
    /\ Done("calculate_taxes") =>
           /\ result.ok <=> AllParse(args)
           /\ ~result.ok => NamesAFailure(result, args)
    /\ Done("ffi_compare_scenarios") =>
           /\ result.ok <=> (AllParse(args.base) /\ AllParse(args.scenario))
           /\ ~result.ok => \/ NamesAFailure(result, args.base)
                             \/ NamesAFailure(result, args.scenario)

C22_Witness ==
    /\ Done("calculate_taxes")
    /\ args.gross = <<"1", "0", "0", "0", "0", "0">>
    /\ args.filing_status = "single"
    /\ args.state = <<"X", "X">>
    /\ args.pre_tax = <<"0">>
    /\ args.traditional_401k = <<"2", "0", "0", "0", "0", ".", "5", "0">>
    /\ result = Err("InvalidState", <<"X", "X">>)

SameBut(fields) ==
    \A f \in DOMAIN args.base \ fields : args.base[f] = args.scenario[f]

NonNegative(input) ==
    /\ Ge(input.gross_income, ZERO)
    /\ Ge(input.pre_tax_deductions, ZERO)
    /\ Ge(input.post_tax_deductions, ZERO)
    /\ Ge(input.traditional_401k, ZERO)
    /\ Ge(input.roth_401k, ZERO)

\* C24: of two inputs that differ only in that the second has the larger
\* traditional_401k (both >= 0), the second has a federal tax that is not
\* higher, strictly lower when the first has a positive federal taxable
\* income, and a strictly lower net income
C24_Larger401k ==
    (/\ Done("compare_scenarios")
     /\ SameBut({"traditional_401k"})
     /\ Ge(args.base.traditional_401k, ZERO)
     /\ Gt(args.scenario.traditional_401k, args.base.traditional_401k)) =>
        /\ Le(result.scenario.tax_breakdown.federal.tax,
              result.base.tax_breakdown.federal.tax)
        /\ Gt(result.base.tax_breakdown.federal.taxable_income, ZERO) =>
               Lt(result.scenario.tax_breakdown.federal.tax,
                  result.base.tax_breakdown.federal.tax)
        /\ Lt(result.scenario.income.net, result.base.income.net)

\* the 401k takes the federal taxable income from 5400 to 0
C24_Witness ==
    /\ Done("compare_scenarios")
    /\ SameBut({"traditional_401k"})
    /\ args.base.gross_income = dec(40000, 0)
    /\ args.base.filing_status = "Single"
    /\ args.base.traditional_401k = dec(20000, 0)
    /\ args.scenario.traditional_401k = dec(30000, 0)
    /\ result.base.tax_breakdown.federal.taxable_income = dec(5400, 0)
    /\ result.base.tax_breakdown.federal.tax = dec(540, 0)
    /\ result.scenario.tax_breakdown.federal.tax = ZERO
    /\ Lt(result.scenario.income.net, result.base.income.net)

\* C25: of two inputs that differ only in the gross income, g2 > g1 >= 0
\* with non-negative deductions, in any state and filing status,
\* compare_scenarios reports 0 < net_difference < g2 - g1
C25_RaiseKeptInPart ==
    (/\ Done("compare_scenarios")
     /\ SameBut({"gross_income"})
     /\ NonNegative(args.base)
     /\ Gt(args.scenario.gross_income, args.base.gross_income)) =>
        /\ Gt(result.net_difference, ZERO)
        /\ is_positive(result)
        /\ Lt(result.net_difference,
              Sub(args.scenario.gross_income, args.base.gross_income))

\* a raise of one cent at 100000 in New York with a 401k contribution
C25_Witness ==
    /\ Done("compare_scenarios")
    /\ SameBut({"gross_income"})
    /\ args.base.gross_income = dec(100000, 0)
    /\ args.scenario.gross_income = dec(10000001, 2)
    /\ args.base.state = "NewYork"
    /\ args.base.traditional_401k = dec(20000, 0)
    /\ Gt(result.net_difference, ZERO)
    /\ Lt(result.net_difference, dec(1, 2))

\* C26: of two inputs that differ only in the state, the second in a state
\* without income tax, with non-negative gross income and deductions, the
\* second has state income_tax = 0 and total_tax = 0 and compare_scenarios
\* reports net_difference >= 0, > 0 (is_positive) when the first state's
\* total tax is not zero
C26_MoveToNoTaxState ==
    (/\ Done("compare_scenarios")
     /\ SameBut({"state"})
     /\ has_no_income_tax(args.scenario.state)
     /\ NonNegative(args.base)) =>
        /\ result.scenario.tax_breakdown.state.income_tax = ZERO
        /\ result.scenario.tax_breakdown.state.total_tax = ZERO
        /\ Ge(result.net_difference, ZERO)
        /\ result.base.tax_breakdown.state.total_tax # ZERO =>
               (Gt(result.net_difference, ZERO) /\ is_positive(result))

\* C27: two inputs that differ only in post_tax_deductions and roth_401k
\* have the same federal, state and FICA results, total_taxes and effective
\* rates, and their net incomes differ by the difference of
\* post_tax_deductions + roth_401k
C27_PostTaxChangesNoTax ==
    (Done("compare_scenarios") /\ SameBut({"post_tax_deductions", "roth_401k"})) =>
        /\ result.scenario.tax_breakdown = result.base.tax_breakdown
        /\ result.scenario.effective_rates = result.base.effective_rates
        /\ Sub(result.base.income.net, result.scenario.income.net)
               = Sub(Add(args.scenario.post_tax_deductions, args.scenario.roth_401k),
                     Add(args.base.post_tax_deductions, args.base.roth_401k))

C27_Witness ==
    /\ Done("compare_scenarios")
    /\ SameBut({"post_tax_deductions", "roth_401k"})
    /\ args.base.gross_income = dec(100000, 0)
    /\ args.base.post_tax_deductions = dec(120050, 2)
    /\ args.base.roth_401k = ZERO
    /\ args.scenario.post_tax_deductions = dec(3000, 0)
    /\ args.scenario.roth_401k = dec(6000, 0)
    /\ Gt(result.base.tax_breakdown.total_taxes, ZERO)
    /\ result.net_difference = dec(-779950, 2)

(***************************************************************************)
(* The data provider and the year.                                         *)
(***************************************************************************)
\* C28: the embedded provider ignores the year: federal_brackets,
\* standard_deduction, fica_config and state_config return the 2024 values
\* for every year, and the engine (and the federal and FICA calculators)
\* built for any year return the result of 2024; every year gives a value
C28_YearIgnored ==
    /\ Done("provider") =>
           /\ result.federal_brackets = federal_brackets(args.filing_status, 2024)
           /\ result.federal_brackets
                  = build_federal_brackets_2024[args.filing_status]
           /\ result.standard_deduction
                  = standard_deduction(args.filing_status, 2024)
           /\ result.standard_deduction
                  = build_standard_deductions_2024[args.filing_status]
           /\ result.fica_config = build_fica_config_2024
           /\ result.state_config = state_config(args.state, 2024)
    /\ Done("calculate") =>
           result = TaxCalculationEngine_calculate(args.input, 2024)
    /\ Done("federal") =>
           result = FederalTaxCalculator_calculate(args.taxable_income,
                                                   args.filing_status, 2024)
    /\ Done("fica") =>
           result = calculate_with_status(args.gross_income, args.filing_status, 2024)
    /\ op \in {"provider", "calculate", "federal", "fica"} => pc # "panicked"

C28_Witness ==
    /\ Done("calculate")
    /\ args.year = 1999
    /\ args.input.gross_income = dec(100000, 0)
    /\ args.input.state = "California"
    /\ result.tax_breakdown.federal.taxable_income = dec(85400, 0)
    /\ Gt(result.tax_breakdown.state.sdi, ZERO)
    /\ result.tax_breakdown.fica.social_security = dec(6200, 0)

(***************************************************************************)
(* The bracket breakdown.                                                  *)
(***************************************************************************)
RECURSIVE SumTaxable(_)
SumTaxable(breakdown) ==
    IF breakdown = << >> THEN ZERO
    ELSE Add(breakdown[1].taxable_in_bracket, SumTaxable(Tail(breakdown)))

\* the breakdown lists the first brackets of the list in their order, each
\* entry with 0 < taxable_in_bracket <= ceiling - floor and
\* tax_paid = taxable_in_bracket * rate, and the amounts sum to x
BreakdownOf(breakdown, brackets, x) ==
    /\ Len(breakdown) \in 1..Len(brackets)
    /\ \A i \in 1..Len(breakdown) :
           /\ breakdown[i].floor = brackets[i].floor
           /\ breakdown[i].ceiling = brackets[i].ceiling
           /\ breakdown[i].rate = brackets[i].rate
           /\ i > 1 => breakdown[i].floor = breakdown[i - 1].ceiling[1]
           /\ Gt(breakdown[i].taxable_in_bracket, ZERO)
           /\ breakdown[i].ceiling # None =>
                  Le(breakdown[i].taxable_in_bracket,
                     Sub(breakdown[i].ceiling[1], breakdown[i].floor))
           /\ breakdown[i].tax_paid
                  = Mul(breakdown[i].taxable_in_bracket, breakdown[i].rate)
    /\ brackets[1].floor = ZERO
    /\ SumTaxable(breakdown) = x

\* the last bracket listed is the one that contains x (TaxBracket::contains)
EndsAtContaining(breakdown, brackets, x) ==
    contains(brackets[Len(breakdown)], x)

\* the last bracket listed is the last one whose floor is below x
EndsBelow(breakdown, brackets, x) ==
    /\ Gt(x, brackets[Len(breakdown)].floor)
    /\ \/ brackets[Len(breakdown)].ceiling = None
       \/ Le(x, brackets[Len(breakdown)].ceiling[1])

\* the brackets and the income of the progressive path of a state call
StateBrackets ==
    get_or(state_config(args.state, args.year).brackets, as_str(args.filing_status),
           << >>)

StateAdjustedIncome ==
    LET config == state_config(args.state, args.year)
    IN  Max(Sub(args.taxable_income,
                IF config.standard_deduction = None THEN ZERO
                ELSE get_or(config.standard_deduction[1],
                            as_str(args.filing_status), ZERO)),
            ZERO)

\* a state call that takes the progressive path with a positive income
ProgressiveCall ==
    /\ Done("state")
    /\ ~has_no_income_tax(args.state)
    /\ ~has_flat_tax(args.state)
    /\ StateBrackets # << >>
    /\ Gt(StateAdjustedIncome, ZERO)

\* C29 as stated: for a taxable income x > 0 the breakdown of the federal
\* calculator (and of the progressive state path for its adjusted income)
\* lists the brackets in ascending order without gaps from the first up to
\* the one that contains x, every entry has
\* 0 < taxable_in_bracket <= ceiling - floor and
\* tax_paid = taxable_in_bracket * rate, and the amounts sum to x
C29_BreakdownUpToContaining ==
    /\ (Done("federal") /\ Gt(args.taxable_income, ZERO)) =>
           /\ BreakdownOf(result.bracket_breakdown,
                          federal_brackets(args.filing_status, args.year),
                          args.taxable_income)
           /\ EndsAtContaining(result.bracket_breakdown,
                               federal_brackets(args.filing_status, args.year),
                               args.taxable_income)
    /\ ProgressiveCall =>
           /\ result.bracket_breakdown # None
           /\ BreakdownOf(result.bracket_breakdown[1], StateBrackets,
                          StateAdjustedIncome)
           /\ EndsAtContaining(result.bracket_breakdown[1], StateBrackets,
                               StateAdjustedIncome)

\* C29, amended: the same, the breakdown ending at the last bracket whose
\* floor is below x: the bracket that contains x, or the one below it when x
\* is exactly a bracket floor
C29_BreakdownUpToLastBelow ==
    /\ (Done("federal") /\ Gt(args.taxable_income, ZERO)) =>
           /\ BreakdownOf(result.bracket_breakdown,
                          federal_brackets(args.filing_status, args.year),
                          args.taxable_income)
           /\ EndsBelow(result.bracket_breakdown,
                        federal_brackets(args.filing_status, args.year),
                        args.taxable_income)
    /\ ProgressiveCall =>
           /\ result.bracket_breakdown # None
           /\ BreakdownOf(result.bracket_breakdown[1], StateBrackets,
                          StateAdjustedIncome)
           /\ EndsBelow(result.bracket_breakdown[1], StateBrackets,
                        StateAdjustedIncome)

\* an income exactly on the third floor: two entries, the second full
C29_Witness ==
    /\ Done("federal")
    /\ args.filing_status = "Single"
    /\ args.taxable_income = dec(47150, 0)
    /\ Len(result.bracket_breakdown) = 2
    /\ result.bracket_breakdown[2].taxable_in_bracket = dec(35550, 0)
    /\ result.bracket_breakdown[2].ceiling = Some(args.taxable_income)
    /\ contains(federal_brackets("Single", args.year)[3], args.taxable_income)

(***************************************************************************)
(* The custom schedule.                                                    *)
(***************************************************************************)
\* C30: from_annual_custom(a, 40, 5) is from_annual(a), and for positive
\* hours_per_week h and days_per_week d the annual, monthly, bi_weekly and
\* weekly fields are those of from_annual(a) while daily = a / (52 * d) and
\* hourly = a / (52 * h)
C30_CustomSchedule ==
    (/\ Done("from_annual_custom")
     /\ Gt(args.hours_per_week, ZERO)
     /\ Gt(args.days_per_week, ZERO)) =>
        /\ result.annual = from_annual(args.annual).annual
        /\ result.monthly = from_annual(args.annual).monthly
        /\ result.bi_weekly = from_annual(args.annual).bi_weekly
        /\ result.weekly = from_annual(args.annual).weekly
        /\ result.daily = Div(args.annual, Mul(dec(52, 0), args.days_per_week))
        /\ result.hourly = Div(args.annual, Mul(dec(52, 0), args.hours_per_week))
        /\ (args.hours_per_week = dec(40, 0) /\ args.days_per_week = dec(5, 0)) =>
               result = from_annual(args.annual)

\* 104000 a year at 20 hours on 4 days a week: 100 an hour, 500 a day
C30_Witness ==
    /\ Done("from_annual_custom")
    /\ args.annual = dec(104000, 0)
    /\ args.hours_per_week = dec(20, 0)
    /\ args.days_per_week = dec(4, 0)
    /\ result.hourly = dec(100, 0)
    /\ result.daily = dec(500, 0)
    /\ result.weekly = dec(2000, 0)
    /\ result # from_annual(args.annual)

====
